---- MODULE Spec2Model ----
(***************************************************************************)
(* Model of the chess_manager tournament engine                            *)
(* (chess_manager/models/tournament_models.py, match_models.py,            *)
(* round_models.py, constants/match_results.py) and of the scoring and     *)
(* orchestration flow built on it (controllers/round_controller.py,        *)
(* controllers/tournament_controller.py).                                  *)
(*                                                                         *)
(* Conventions.                                                            *)
(*  - A player is identified by its national_id, modelled as a natural     *)
(*    1..MaxPlayers; NoPlayer (0) is Python's None for Match.player2.      *)
(*  - Points are counted in HALF POINTS: 1.0 -> 2, 0.5 -> 1, 0.0 -> 0, so  *)
(*    that the float sums of the code (exact on multiples of 0.5) are      *)
(*    integer sums here.                                                   *)
(*  - Python's None for a result label is the string "None"; an empty      *)
(*    timestamp or date is "".                                             *)
(*  - An operation that can raise is an operator returning a record with   *)
(*    the state it leaves behind (t) and the exception raised (exc,        *)
(*    "None" when it returns normally).                                    *)
(***************************************************************************)
EXTENDS Integers, Sequences, FiniteSets, TLC

\* ------------------------------------------------------------------ bounds
\* Largest roster built in a behaviour (8 = even roster, 9 = odd roster).
MaxPlayers == 9
\* Number of outcomes of one random.shuffle call that are explored.
ShuffleChoices == 5
\* Largest number_rounds a tournament is constructed with.
MaxNumberRounds == 2
\* Cap on current_round_number (tiebreak rounds are otherwise unbounded).
MaxRoundNumber == 3
\* Cap on the number of two-player matches holding a result other than "V",
\* in the orchestrated flow.
MaxNonWin == 1
\* Number of outcomes of one random.shuffle call explored in the
\* orchestrated flow.
FlowShuffleChoices == 3
\* Cap on the number of rolled-back results (edits) in a behaviour.
MaxEdits == 1

\* Largest number of records the repository holds.
MaxStored == 3
\* Number of distinct contents a record saved to the repository can have.
MaxData == 2
\* Number of distinct normalised names of the records saved.
MaxNames == 2
\* Number of players the two players of a match taken alone are drawn from.
MaxMatchPlayers == 3
\* Largest player id in the lookup a stored match is rebuilt with.
MaxLookup == 2
\* National ids of the players file and of the players added to it.
MaxDirectoryIds == 2
\* Locations (with the day, the rest of a generated name) and numbers in
\* the names of the records a repository holds at first.
MaxSlugs == 2
MaxNumber == 3
\* Rounds in a stored record whose progress is computed.
MaxStoredRounds == 6

\* ------------------------------------------------------- program constants
\* validate_roster_before_launch: "Il faut au moins 8 joueurs".
MinPlayers == 8
\* Match.player2 of a bye: None.
NoPlayer == 0

Ids == 1..MaxPlayers

\* A name as a record holds it: the key it normalises to (0 for the empty
\* name) and how it is written (plain, in upper case, padded with blanks;
\* "blank" is a name made of blanks only, "none" a record with no name).
Name(k, form) == [ key |-> k, form |-> form ]
EmptyName == Name(0, "plain")

\* A Match object nobody holds.
NoMatch == "none"

\* constants/match_results.py: the codes a user may type, and their labels.
MATCH_RESULT_CODES == [V |-> "victoire", D |-> "defaite", N |-> "nul"]

\* constants/match_results.py: points of a label, in half points.
MATCH_RESULT_POINTS == [victoire |-> 2, nul |-> 1, defaite |-> 0]

\* The attributes a Tournament object answers to (getattr / method lookup).
TournamentAttrs ==
    { "status", "name", "registration_open", "get_description", "set_description",
      "has_player", "roster_size", "mark_launched", "mark_finished",
      "compute_winner_id", "add_player", "add_player_id",
      "validate_roster_before_launch", "start_first_round", "start_next_round",
      "tied_leaders", "have_first_place_tie", "start_tiebreak_round",
      "update_scores_from_round", "to_dict", "from_dict", "get_player_by_id",
      "remember_pair", "have_played_before", "sorted_player_ids_by_score",
      "find_partner", "apply_match_points", "add_exempt_bye",
      "add_exempt_bye_by_id" }

\* ----------------------------------------------------------- small helpers
Range(s) == { s[i] : i \in 1..Len(s) }

RemoveAt(s, i) == [ j \in 1..(Len(s) - 1) |-> IF j < i THEN s[j] ELSE s[j + 1] ]

RECURSIVE SumSeq(_)
SumSeq(s) == IF Len(s) = 0 THEN 0 ELSE s[1] + SumSeq(Tail(s))

Max(S) == CHOOSE x \in S : \A y \in S : y <= x

\* dict.get(key, 0.0)
Get(d, k) == IF k \in DOMAIN d THEN d[k] ELSE 0

\* d[key] = value on a dict
Put(d, k, v) == [ x \in (DOMAIN d) \cup {k} |-> IF x = k THEN v ELSE d[x] ]

\* random.shuffle(s): the k-th outcome, k read in the factorial number system
\* (the first digit picks the element that comes first, and so on).  Over
\* k \in 0..Len(s)!-1 this yields every permutation of s exactly once.
RECURSIVE Shuffle(_, _)
Shuffle(s, k) ==
    IF Len(s) <= 1 THEN s
    ELSE LET i == (k % Len(s)) + 1
         IN  <<s[i]>> \o Shuffle(RemoveAt(s, i), k \div Len(s))

ShuffleOutcomes == 0..(ShuffleChoices - 1)

FlowShuffleOutcomes == 0..(FlowShuffleChoices - 1)

\* ------------------------------------------------------------------- Match
\* str(x).strip().upper() on the raw codes a caller may pass.
NormalizeCode(code) ==
    CASE code = "v" -> "V"
      [] code = " d " -> "D"
      [] code = "n" -> "N"
      [] code = "e" -> "E"
      [] code = " V" -> "V"
      [] code = "x" -> "X"
      [] code = "None" -> ""
      [] code = "  " -> ""
      [] OTHER -> code

\* Match._auto_set_exempt: result1 is assigned, then MATCH_RESULT_POINTS["exempt"]
\* is looked up (a KeyError when the table has no such key).
AutoSetExempt(m) ==
    IF "exempt" \in DOMAIN MATCH_RESULT_POINTS
    THEN [ m |-> [m EXCEPT !.result1 = "exempt",
                           !.score1 = MATCH_RESULT_POINTS["exempt"],
                           !.result2 = "None",
                           !.score2 = 0],
           exc |-> "None" ]
    ELSE [ m |-> [m EXCEPT !.result1 = "exempt"], exc |-> "KeyError" ]

\* Match.__init__(player1, player2)
NewMatch(p1, p2) ==
    LET m0 == [ player1 |-> p1, player2 |-> p2, score1 |-> 0, score2 |-> 0,
                result1 |-> "None", result2 |-> "None" ]
    IN  IF p2 = NoPlayer THEN AutoSetExempt(m0) ELSE [ m |-> m0, exc |-> "None" ]

\* Match.set_result_by_code(code_for_p1)
SetResultByCode(m, code_for_p1) ==
    LET code == NormalizeCode(code_for_p1)
    IN  IF code \notin DOMAIN MATCH_RESULT_CODES
        THEN [ m |-> m, exc |-> "ValueError" ]
        ELSE LET label == MATCH_RESULT_CODES[code]
             IN  IF label = "exempt" \/ m.player2 = NoPlayer
                 THEN AutoSetExempt(m)
                 ELSE LET r1 == label
                          r2 == IF label = "victoire" THEN "defaite"
                                ELSE IF label = "defaite" THEN "victoire"
                                ELSE "nul"
                      IN  [ m |-> [m EXCEPT !.result1 = r1,
                                            !.result2 = r2,
                                            !.score1 = MATCH_RESULT_POINTS[r1],
                                            !.score2 = MATCH_RESULT_POINTS[r2]],
                            exc |-> "None" ]

\* float(x) of a score argument: a number is taken as it is, the text of a
\* number gives the number, other text (v = -1) raises ValueError.  Values
\* are in half points.
ToFloat(raw) ==
    IF raw.kind = "text" /\ raw.v = -1 THEN [ v |-> 0, exc |-> "ValueError" ]
    ELSE [ v |-> raw.v, exc |-> "None" ]

\* play_match as it would be if it stored the scores before testing them.
play_match_store_first(m, score1, score2) ==
    LET f1 == ToFloat(score1)
        f2 == ToFloat(score2)
    IN  IF f1.exc # "None" \/ f2.exc # "None" THEN [ m |-> m, exc |-> "ValueError" ]
        ELSE [ m |-> [m EXCEPT !.score1 = f1.v, !.score2 = f2.v],
               exc |-> IF <<f1.v, f2.v>> \in { <<2, 0>>, <<0, 2>>, <<1, 1>> }
                       THEN "None" ELSE "ValueError" ]

\* Match.play_match(score1, score2)
play_match(m, score1, score2) ==
    IF m.player2 = NoPlayer THEN AutoSetExempt(m)
    ELSE LET f1 == ToFloat(score1)
             f2 == ToFloat(score2)
         IN  IF f1.exc # "None" \/ f2.exc # "None" THEN [ m |-> m, exc |-> "ValueError" ]
             ELSE IF <<f1.v, f2.v>> = <<2, 0>>
             THEN [ m |-> [m EXCEPT !.result1 = "victoire", !.result2 = "defaite",
                                    !.score1 = f1.v, !.score2 = f2.v],
                    exc |-> "None" ]
             ELSE IF <<f1.v, f2.v>> = <<0, 2>>
             THEN [ m |-> [m EXCEPT !.result1 = "defaite", !.result2 = "victoire",
                                    !.score1 = f1.v, !.score2 = f2.v],
                    exc |-> "None" ]
             ELSE IF <<f1.v, f2.v>> = <<1, 1>>
             THEN [ m |-> [m EXCEPT !.result1 = "nul", !.result2 = "nul",
                                    !.score1 = f1.v, !.score2 = f2.v],
                    exc |-> "None" ]
             ELSE [ m |-> m, exc |-> "ValueError" ]

\* ------------------------------------------------------------------- Round
\* Round.__init__(round_number)
NewRound(n) == [ round_number |-> n, end_time |-> "", matches |-> <<>> ]

\* Round.add_match(match)
AddMatch(rnd, m) == [rnd EXCEPT !.matches = Append(@, m)]

\* -------------------------------------------------------------- Tournament
\* Tournament.__init__(location, start_date, ..., number_rounds)
NewTournament(sd, nr) ==
    [ players |-> <<>>, rounds |-> <<>>, scores |-> <<>>, past_pairs |-> {},
      current_round_number |-> 0, number_rounds |-> nr,
      start_date |-> sd, end_date |-> "", started_at |-> "", finished_at |-> "",
      winner_id |-> NoPlayer,
      location |-> "Paris", description |-> "", repo_name |-> EmptyName ]

\* Tournament.registration_open
registration_open(t) == t.current_round_number = 0

\* Tournament.has_player(national_id)
has_player(t, id) == \E i \in 1..Len(t.players) : t.players[i] = id

\* Tournament.roster_size()
roster_size(t) == Len(t.players)

\* mark_launched as it would be if it stamped the dates unconditionally.
mark_launched_overwrite(t) ==
    [t EXCEPT !.start_date = "today", !.started_at = "now"]

\* Tournament.mark_launched()
mark_launched(t) ==
    [t EXCEPT !.start_date = IF @ = "" THEN "today" ELSE @,
              !.started_at = IF @ = "" THEN "now" ELSE @]

\* The instants at which mark_finished can be called, and their days.
Clock == { "now", "later" }
Today(now) == IF now = "later" THEN "tomorrow" ELSE "today"

\* The variant that writes the two fields at each call.
mark_finished_overwrite(t, now) ==
    [t EXCEPT !.end_date = Today(now), !.finished_at = now]

\* Tournament.mark_finished(), called at instant now.
mark_finished(t, now) ==
    [t EXCEPT !.end_date = IF @ = "" THEN Today(now) ELSE @,
              !.finished_at = IF @ = "" THEN now ELSE @]

\* add_player as it would be if the registration check came after the append.
add_player_late_check(t, id) ==
    IF has_player(t, id) THEN [ t |-> t, exc |-> "ValueError" ]
    ELSE LET t1 == [t EXCEPT !.players = Append(@, id), !.scores = Put(@, id, 0)]
         IN  IF ~registration_open(t) THEN [ t |-> t1, exc |-> "ValueError" ]
             ELSE [ t |-> t1, exc |-> "None" ]

\* Tournament.add_player(player)
add_player(t, id) ==
    IF ~registration_open(t) THEN [ t |-> t, exc |-> "ValueError" ]
    ELSE IF has_player(t, id) THEN [ t |-> t, exc |-> "ValueError" ]
    ELSE [ t |-> [t EXCEPT !.players = Append(@, id),
                           !.scores = Put(@, id, 0)],
           exc |-> "None" ]

\* Tournament.validate_roster_before_launch(): TRUE when it raises.
validate_roster_fails(t) ==
    \/ roster_size(t) < MinPlayers
    \/ Cardinality(Range(t.players)) # Len(t.players)

\* Tournament.remember_pair(id1, id2)
\* remember_pair as it would be if it recorded the first player alone.
remember_pair_single(pp, id1, id2) == pp \cup { {id1} }

remember_pair(pp, id1, id2) == pp \cup { {id1, id2} }

\* Tournament.have_played_before(id1, id2)
have_played_before(pp, id1, id2) == {id1, id2} \in pp

\* Tournament.apply_match_points(match), on the ledger sc.
apply_match_points(sc, m) ==
    LET s1 == Put(sc, m.player1, Get(sc, m.player1) + m.score1)
    IN  IF m.player2 # NoPlayer
        THEN Put(s1, m.player2, Get(s1, m.player2) + m.score2)
        ELSE s1

\* Tournament.add_exempt_bye(rnd, player): the tournament and the round it
\* leaves, and the exception raised on the way.
add_exempt_bye(t, rnd, id) ==
    LET c == NewMatch(id, NoPlayer)
    IN  IF c.exc # "None" THEN [ t |-> t, rnd |-> rnd, exc |-> c.exc ]
        ELSE LET r == SetResultByCode(c.m, "E")
             IN  IF r.exc # "None" THEN [ t |-> t, rnd |-> rnd, exc |-> r.exc ]
                 ELSE [ t |-> [t EXCEPT !.scores = apply_match_points(@, r.m)],
                        rnd |-> AddMatch(rnd, r.m),
                        exc |-> "None" ]

\* Tournament.start_first_round(); k is the outcome of random.shuffle(pool).
start_first_round(t, k) ==
    IF t.current_round_number # 0 THEN [ t |-> t, exc |-> "ValueError" ]
    ELSE IF validate_roster_fails(t) THEN [ t |-> t, exc |-> "ValueError" ]
    ELSE
      LET t1 == [mark_launched(t) EXCEPT !.current_round_number = 1]
          pool == Shuffle(t.players, k)
          n == Len(pool) \div 2
          ms == [ i \in 1..n |-> NewMatch(pool[2 * i - 1], pool[2 * i]).m ]
          t2 == [t1 EXCEPT !.past_pairs =
                     @ \cup { {pool[2 * i - 1], pool[2 * i]} : i \in 1..n }]
          rnd == [NewRound(1) EXCEPT !.matches = ms]
      IN  IF Len(pool) % 2 = 1
          THEN LET b == add_exempt_bye(t2, rnd, pool[Len(pool)])
               IN  IF b.exc # "None" THEN [ t |-> b.t, exc |-> b.exc ]
                   ELSE [ t |-> [b.t EXCEPT !.rounds = Append(@, b.rnd)],
                          exc |-> "None" ]
          ELSE [ t |-> [t2 EXCEPT !.rounds = Append(@, rnd)], exc |-> "None" ]

\* Tournament.update_scores_from_round(round): apply_match_points for each
\* match of the round, in order.
RECURSIVE ApplyMatches(_, _)
ApplyMatches(sc, ms) ==
    IF Len(ms) = 0 THEN sc ELSE ApplyMatches(apply_match_points(sc, ms[1]), Tail(ms))

update_scores_from_round(t, rnd) == [t EXCEPT !.scores = ApplyMatches(@, rnd.matches)]

\* Tournament.get_player_by_id(national_id): TRUE when it raises KeyError.
get_player_fails(t, id) == ~has_player(t, id)

\* sorted(buckets.keys(), reverse=True)
RECURSIVE SortDesc(_)
SortDesc(S) == IF S = {} THEN <<>> ELSE <<Max(S)>> \o SortDesc(S \ {Max(S)})

RECURSIVE Flatten(_)
Flatten(ss) == IF Len(ss) = 0 THEN <<>> ELSE ss[1] \o Flatten(Tail(ss))

\* The keys of `buckets` in sorted_player_ids_by_score: the distinct scores.
ScoreValues(t) == { Get(t.scores, t.players[i]) : i \in 1..Len(t.players) }

\* buckets[sc]: the roster ids of score sc, in roster order.
Bucket(t, sc) == SelectSeq(t.players, LAMBDA p : Get(t.scores, p) = sc)

\* Tournament.sorted_player_ids_by_score(); ks[j] is the outcome of the
\* random.shuffle of the j-th bucket (scores descending).
sorted_player_ids_by_score(t, ks) ==
    LET sorted_scores == SortDesc(ScoreValues(t))
    IN  Flatten([ j \in 1..Len(sorted_scores) |->
                    Shuffle(Bucket(t, sorted_scores[j]), ks[j]) ])

\* The first element of s[from..] that is in the set ok, or NoPlayer (None).
FirstFrom(s, from, ok) ==
    LET I == { i \in from..Len(s) : s[i] \in ok }
    IN  IF I = {} THEN NoPlayer
        ELSE s[CHOOSE i \in I : \A j \in I : i <= j]

\* sorted_ids.index(p1_id): the first position of p1_id.
IndexOf(s, x) == CHOOSE i \in 1..Len(s) : s[i] = x /\ \A j \in 1..(i - 1) : s[j] # x

\* find_partner as it would be without the test of past_pairs.
find_partner_any(pp, p1_id, sorted_ids, used) ==
    IF p1_id \notin Range(sorted_ids) THEN NoPlayer
    ELSE FirstFrom(sorted_ids, IndexOf(sorted_ids, p1_id) + 1,
                   { p2 \in Range(sorted_ids) : p2 \notin used })

\* Tournament.find_partner(p1_id, sorted_ids, used), over past_pairs pp.
find_partner(pp, p1_id, sorted_ids, used) ==
    IF p1_id \notin Range(sorted_ids) THEN NoPlayer
    ELSE FirstFrom(sorted_ids, IndexOf(sorted_ids, p1_id) + 1,
                   { p2 \in Range(sorted_ids) :
                       p2 \notin used /\ ~have_played_before(pp, p1_id, p2) })

\* The pairing loop of start_next_round from position i on: the matches
\* created and past_pairs as remember_pair leaves it.
RECURSIVE PairLoop(_, _, _, _, _)
PairLoop(sorted_ids, i, used, ms, pp) ==
    IF i > Len(sorted_ids) THEN [ matches |-> ms, past_pairs |-> pp ]
    ELSE
      LET p1_id == sorted_ids[i]
      IN  IF p1_id \in used THEN PairLoop(sorted_ids, i + 1, used, ms, pp)
          ELSE
            LET found == find_partner(pp, p1_id, sorted_ids, used)
                p2_id == IF found # NoPlayer THEN found
                         ELSE FirstFrom(sorted_ids, i + 1,
                                        { pid \in Range(sorted_ids) :
                                            pid \notin used /\ pid # p1_id })
            IN  IF p2_id = NoPlayer
                THEN PairLoop(sorted_ids, i + 1, used, ms, pp)
                ELSE PairLoop(sorted_ids, i + 1, used \cup {p1_id, p2_id},
                              Append(ms, NewMatch(p1_id, p2_id).m),
                              remember_pair(pp, p1_id, p2_id))

\* Tournament.start_next_round(); ks are the outcomes of the bucket shuffles.
start_next_round(t, ks) ==
    IF t.current_round_number = 0 THEN [ t |-> t, exc |-> "ValueError" ]
    ELSE IF t.current_round_number >= t.number_rounds
    THEN [ t |-> t, exc |-> "ValueError" ]
    ELSE
      LET t1 == [t EXCEPT !.current_round_number = @ + 1]
          rnd == NewRound(t1.current_round_number)
          all_ids == sorted_player_ids_by_score(t1, ks)
          odd == Len(all_ids) % 2 = 1
          sorted_ids == IF odd THEN SubSeq(all_ids, 1, Len(all_ids) - 1) ELSE all_ids
          b == IF odd THEN add_exempt_bye(t1, rnd, all_ids[Len(all_ids)])
               ELSE [ t |-> t1, rnd |-> rnd, exc |-> "None" ]
      IN  IF b.exc # "None" THEN [ t |-> b.t, exc |-> b.exc ]
          ELSE
            LET r == PairLoop(sorted_ids, 1, {}, b.rnd.matches, b.t.past_pairs)
            IN  [ t |-> [b.t EXCEPT !.past_pairs = r.past_pairs,
                                    !.rounds = Append(@, [b.rnd EXCEPT !.matches = r.matches])],
                  exc |-> "None" ]

\* Tournament.tied_leaders()
tied_leaders(t) ==
    IF Len(t.players) = 0 THEN <<>>
    ELSE LET top_score == Max(ScoreValues(t))
         IN  SelectSeq(t.players, LAMBDA p : Get(t.scores, p) = top_score)

\* Tournament.have_first_place_tie()
have_first_place_tie(t) == Len(tied_leaders(t)) > 1

\* Tournament.compute_winner_id(): NoPlayer is None.
compute_winner_id(t) ==
    LET leaders == tied_leaders(t)
    IN  IF Len(leaders) = 1 THEN leaders[1] ELSE NoPlayer

\* A raw id as a caller passes it: the id it denotes and how it is written
\* (as stored, in lower case, or padded with blanks); the blank string
\* denotes no id.
RawId(n) == [ id |-> n, form |-> "upper" ]
BlankId == [ id |-> NoPlayer, form |-> "blank" ]

\* str(pid).strip().upper(): the id denoted; the empty string (NoPlayer)
\* for a blank.
NormalizeId(raw) == IF raw.form = "blank" THEN NoPlayer ELSE raw.id

\* The normalisation loop of start_tiebreak_round: ids_norm.
RECURSIVE IdsNorm(_, _)
IdsNorm(leader_ids, acc) ==
    IF Len(leader_ids) = 0 THEN acc
    ELSE LET pid == NormalizeId(leader_ids[1])
         IN  IF pid # NoPlayer /\ pid \notin Range(acc)
             THEN IdsNorm(Tail(leader_ids), Append(acc, pid))
             ELSE IdsNorm(Tail(leader_ids), acc)

\* The pairing loop of start_tiebreak_round as it would be if it called
\* remember_pair like the loops of the scheduled rounds.
TiebreakPairLoopRemember(ids, ms, pp) ==
    [ matches |-> ms \o [ i \in 1..(Len(ids) \div 2) |->
                            NewMatch(ids[2 * i - 1], ids[2 * i]).m ],
      past_pairs |-> pp \cup { {ids[2 * i - 1], ids[2 * i]} : i \in 1..(Len(ids) \div 2) } ]

\* The pairing loop of start_tiebreak_round: consecutive ids are paired in
\* order; remember_pair is not called, so past_pairs is as it was.
TiebreakPairLoop(ids, ms, pp) ==
    [ matches |-> ms \o [ i \in 1..(Len(ids) \div 2) |->
                            NewMatch(ids[2 * i - 1], ids[2 * i]).m ],
      past_pairs |-> pp ]

\* Tournament.start_tiebreak_round(leader_ids); k is the shuffle's outcome.
start_tiebreak_round(t, leader_ids, k) ==
    IF Len(leader_ids) = 0 THEN [ t |-> t, exc |-> "ValueError" ]
    ELSE
      LET ids_norm == IdsNorm(leader_ids, <<>>)
      IN  IF Len(ids_norm) < 2 THEN [ t |-> t, exc |-> "ValueError" ]
          ELSE IF \E i \in 1..Len(ids_norm) : get_player_fails(t, ids_norm[i])
          THEN [ t |-> t, exc |-> "KeyError" ]
          ELSE
            LET t1 == [t EXCEPT !.current_round_number = @ + 1]
                rnd == NewRound(t1.current_round_number)
                shuffled == Shuffle(ids_norm, k)
                odd == Len(shuffled) % 2 = 1
                ids == IF odd THEN SubSeq(shuffled, 1, Len(shuffled) - 1) ELSE shuffled
                b == IF odd THEN add_exempt_bye(t1, rnd, shuffled[Len(shuffled)])
                     ELSE [ t |-> t1, rnd |-> rnd, exc |-> "None" ]
            IN  IF b.exc # "None" THEN [ t |-> b.t, exc |-> b.exc ]
                ELSE
                  LET r == TiebreakPairLoop(ids, b.rnd.matches, b.t.past_pairs)
                  IN  [ t |-> [b.t EXCEPT !.past_pairs = r.past_pairs,
                                          !.rounds = Append(@, [b.rnd EXCEPT !.matches = r.matches])],
                        exc |-> "None" ]

\* ------------------------------------------------- round_controller helpers
\* _has_result(match): Match has no is_scored and no result_code attribute.
\* _has_result as it would be if it counted numeric scores too.
HasResultOrScores(m) ==
    \/ m.result1 \notin {"None", ""}
    \/ m.player2 = NoPlayer
    \/ <<m.score1, m.score2>> # <<0, 0>>

HasResult(m) == m.result1 \notin {"None", ""} \/ m.player2 = NoPlayer

\* The `pending` set built at the top of score_round.
PendingOf(rnd) == { i \in 1..Len(rnd.matches) : ~HasResult(rnd.matches[i]) }

\* _apply_points_once(tournament, match) of round_controller.py, on the
\* ledger sc: award_points_for_match if the tournament has it, else
\* tournament._apply_match_points (an AttributeError when it has neither).
ApplyPointsOnce(sc, m) ==
    IF "award_points_for_match" \in TournamentAttrs
       \/ "_apply_match_points" \in TournamentAttrs
    THEN [ scores |-> apply_match_points(sc, m), exc |-> "None" ]
    ELSE [ scores |-> sc, exc |-> "AttributeError" ]

\* _rollback_points(tournament, match), on the ledger sc.
RollbackPoints(sc, m) ==
    LET s1 == Put(sc, m.player1, Get(sc, m.player1) - m.score1)
    IN  IF m.player2 # NoPlayer
        THEN Put(s1, m.player2, Get(s1, m.player2) - m.score2)
        ELSE s1

\* The result codes the prompts of score_round offer.
PromptCodes == { "V", "D", "N" }

\* --------------------------------------------------- TournamentRepository
\* (d.get("name") or "").strip().lower(): the key; 0 is the empty string.
NormalizeName(n) == IF n.form \in {"blank", "none"} THEN 0 ELSE n.key

\* The tournaments file: the records its JSON text holds, and whether the
\* text is whole ("complete"), or cut short by a rewrite that has opened the
\* file for writing and not yet closed it ("truncated").  NoFile is the
\* file a new data directory has: it does not exist.
NoFile == [ records |-> <<>>, state |-> "missing" ]
FileOf(records) == [ records |-> records, state |-> "complete" ]
Truncated == [ records |-> <<>>, state |-> "truncated" ]

\* TournamentRepository._load_raw(), on the file f: a text that is not
\* whole raises json.JSONDecodeError, which yields [].
LoadRaw(f) == IF f.state = "complete" THEN f.records ELSE <<>>

\* TournamentRepository.__init__ on a directory whose file is f: a missing
\* file is created holding []; tournaments is what _load_raw reads.
NewRepository(f) ==
    LET f1 == IF f.state = "missing" THEN FileOf(<<>>) ELSE f
    IN  [ tournaments |-> LoadRaw(f1), file |-> f1, writing |-> FALSE ]

\* The index search of save_tournament as it would be if names were
\* compared as written, without strip() and lower().
UpsertIndexExact(tournaments, rec) ==
    LET I == { i \in 1..Len(tournaments) : tournaments[i].name = rec.name }
    IN  IF NormalizeName(rec.name) = 0 \/ I = {} THEN 0
        ELSE CHOOSE i \in I : \A j \in I : i <= j

\* The index save_tournament replaces: the first stored record whose
\* normalised name is that of the record; 0 when there is none or the
\* record's normalised name is empty.
UpsertIndex(tournaments, rec) ==
    LET name == NormalizeName(rec.name)
        I == { i \in 1..Len(tournaments) : NormalizeName(tournaments[i].name) = name }
    IN  IF name = 0 \/ I = {} THEN 0
        ELSE CHOOSE i \in I : \A j \in I : i <= j

\* save_tournament as it would be if it appended without looking for the
\* name.
save_tournament_append(tournaments, rec) == Append(tournaments, rec)

\* save_tournament as it would be if the empty name were a key like any
\* other: a record with no name replaces the stored record with no name.
save_tournament_keyed(tournaments, rec) ==
    LET I == { i \in 1..Len(tournaments) :
                 NormalizeName(tournaments[i].name) = NormalizeName(rec.name) }
    IN  IF I = {} THEN Append(tournaments, rec)
        ELSE [tournaments EXCEPT ![CHOOSE i \in I : \A j \in I : i <= j] = rec]

\* TournamentRepository.save_tournament(tournament), on self.tournaments.
save_tournament(tournaments, rec) ==
    LET idx == UpsertIndex(tournaments, rec)
    IN  IF idx = 0 THEN Append(tournaments, rec)
        ELSE [tournaments EXCEPT ![idx] = rec]

\* TournamentRepository._persist(), whole: the file holds self.tournaments.
Persist(st) == [st EXCEPT !.file = FileOf(st.tournaments), !.writing = FALSE]

\* TournamentRepository.save_tournament(tournament), whole, on the
\* repository st.
SaveTournament(st, rec) ==
    Persist([st EXCEPT !.tournaments = save_tournament(@, rec)])

\* TournamentRepository.get_tournament_by_name(name): the record, or
\* NoRecord (None).
NoRecord == [ name |-> Name(0, "none") ]
get_tournament_by_name(st, name) ==
    LET key == NormalizeName(name)
        I == { i \in 1..Len(st.tournaments) : NormalizeName(st.tournaments[i].name) = key }
    IN  IF I = {} THEN NoRecord
        ELSE st.tournaments[CHOOSE i \in I : \A j \in I : i <= j]

\* ------------------------------------------------------- serialisation
\* constants/player_fields.py: the keys of VALIDATION_MAP. The file holds
\* the first-name label as the bytes of "Pr", U+221A, U+00A9, "nom".
FIELD_FIRST_NAME == "Pr<U+221A><U+00A9>nom"

VALIDATION_MAP ==
    { "Nom de famille", FIELD_FIRST_NAME, "Date de naissance", "Identifiant national" }

\* Player.__init__: it looks the four validators up in VALIDATION_MAP, the
\* first-name one under "Pr", U+00E9, "nom" (a KeyError when the table has
\* no such key); the fields of a stored player pass the validators and are
\* already trimmed and cased.
NewPlayer(id) ==
    IF { "Nom de famille", "Pr<U+00E9>nom", "Date de naissance",
         "Identifiant national" } \subseteq VALIDATION_MAP
    THEN [ p |-> id, exc |-> "None" ]
    ELSE [ p |-> NoPlayer, exc |-> "KeyError" ]

\* Player.to_dict()
PlayerToDict(id) == [ national_id |-> id ]

\* Player.from_dict(data)
PlayerFromDict(data) == NewPlayer(data.national_id)

\* Match.to_dict()
MatchToDict(m) ==
    [ player1 |-> m.player1, player2 |-> m.player2,
      score1 |-> m.score1, score2 |-> m.score2,
      result1 |-> m.result1, result2 |-> m.result2 ]

\* Match.from_dict(data, player_lookup): player_lookup[data["player1"]]
\* raises KeyError for an unknown id, player_lookup.get(data["player2"])
\* gives None for one, and the constructor can raise; the scores and labels
\* are then read back.  key is the key the KeyError names.
MatchFromDict(data, player_lookup) ==
    IF data.player1 \notin player_lookup
    THEN [ m |-> NoMatch, exc |-> "KeyError", key |-> "player1" ]
    ELSE LET p2 == IF data.player2 \in player_lookup THEN data.player2 ELSE NoPlayer
             r  == NewMatch(data.player1, p2)
         IN  IF r.exc # "None" THEN [ m |-> NoMatch, exc |-> r.exc, key |-> "exempt" ]
             ELSE [ m |-> [r.m EXCEPT !.score1 = data.score1,
                                      !.score2 = data.score2,
                                      !.result1 = data.result1,
                                      !.result2 = data.result2],
                    exc |-> "None", key |-> "None" ]

\* Round.to_dict()
RoundToDict(r) ==
    [ round_number |-> r.round_number, end_time |-> r.end_time,
      matches |-> [ i \in 1..Len(r.matches) |-> MatchToDict(r.matches[i]) ] ]

\* Round.from_dict(data, player_lookup)
RoundFromDict(data, player_lookup) ==
    LET ms == [ i \in 1..Len(data.matches) |->
                  MatchFromDict(data.matches[i], player_lookup) ]
        bad == { i \in 1..Len(ms) : ms[i].exc # "None" }
    IN  IF bad # {}
        THEN [ r |-> NewRound(data.round_number),
               exc |-> ms[CHOOSE i \in bad : \A j \in bad : i <= j].exc ]
        ELSE [ r |-> [ round_number |-> data.round_number,
                       end_time |-> data.end_time,
                       matches |-> [ i \in 1..Len(ms) |-> ms[i].m ] ],
               exc |-> "None" ]

\* Tournament.status
status(t) ==
    IF t.finished_at # "" THEN "Termine"
    ELSE IF t.started_at # "" THEN "En cours"
    ELSE "En attente"

\* Tournament.name: location and start_date joined, as a record name.
\* The key stands for the text: 2 without a start date, 3 and 4 with one.
NameProperty(t) ==
    Name(CASE t.start_date = "" -> 2
           [] t.start_date = "preset" -> 3
           [] OTHER -> 4, "plain")

\* Tournament.to_dict()
ToDict(t) ==
    [ name |-> IF t.repo_name # EmptyName THEN t.repo_name ELSE NameProperty(t),
      location |-> t.location,
      start_date |-> t.start_date,
      end_date |-> t.end_date,
      started_at |-> t.started_at,
      finished_at |-> t.finished_at,
      status |-> status(t),
      description |-> t.description,
      number_rounds |-> t.number_rounds,
      current_round_number |-> t.current_round_number,
      players |-> [ i \in 1..Len(t.players) |-> PlayerToDict(t.players[i]) ],
      rounds |-> [ i \in 1..Len(t.rounds) |-> RoundToDict(t.rounds[i]) ],
      scores |-> t.scores,
      past_pairs |-> t.past_pairs,
      winner_id |-> t.winner_id ]

\* data.get(key, default)
DictGet(data, key, default) == IF key \in DOMAIN data THEN data[key] ELSE default

\* str.strip() on a description.
StripText(text) == IF text = " text " THEN "text" ELSE IF text = "  " THEN "" ELSE text

\* The first ten characters of a timestamp: its date.
DateOf(timestamp) == IF timestamp = "" THEN "" ELSE "preset"

\* Tournament.from_dict(data)
FromDict(data) ==
    LET sd0 == DictGet(data, "start_date", "")
        start_date == IF sd0 # "" THEN sd0 ELSE DateOf(DictGet(data, "created_at", ""))
        t0 == [NewTournament(start_date, DictGet(data, "number_rounds", 4)) EXCEPT
                 !.location = data.location,
                 !.end_date = DictGet(data, "end_date", ""),
                 !.description = StripText(DictGet(data, "description", "")),
                 !.repo_name = DictGet(data, "name", EmptyName),
                 !.started_at = DictGet(data, "started_at", ""),
                 !.finished_at = DictGet(data, "finished_at", ""),
                 !.current_round_number = DictGet(data, "current_round_number", 0)]
        entries == DictGet(data, "players", <<>>)
        ps == [ i \in 1..Len(entries) |-> PlayerFromDict(entries[i]) ]
    IN  IF \E i \in 1..Len(ps) : ps[i].exc # "None"
        THEN [ t |-> t0, exc |-> "KeyError" ]
        ELSE
          LET players == [ i \in 1..Len(ps) |-> ps[i].p ]
              lookup == Range(players)
              rds == DictGet(data, "rounds", <<>>)
              rs == [ i \in 1..Len(rds) |-> RoundFromDict(rds[i], lookup) ]
              bad == { i \in 1..Len(rs) : rs[i].exc # "None" }
          IN  IF bad # {}
              THEN [ t |-> [t0 EXCEPT !.players = players],
                     exc |-> rs[CHOOSE i \in bad : \A j \in bad : i <= j].exc ]
              ELSE [ t |-> [t0 EXCEPT
                        !.players = players,
                        !.rounds = [ i \in 1..Len(rs) |-> rs[i].r ],
                        !.scores = IF "scores" \in DOMAIN data THEN data.scores
                                   ELSE [ id \in lookup |-> 0 ],
                        !.past_pairs = { pr \in DictGet(data, "past_pairs", {}) :
                                           Cardinality(pr) = 2 },
                        !.winner_id = DictGet(data, "winner_id", NoPlayer)],
                     exc |-> "None" ]

\* ------------------------------------------------------------------- state
VARIABLES
    tournament,  \* the Tournament object
    call,        \* the last call: its name, the exception it raised, its value
    flow,        \* where the caller of the engine is
    pc,          \* where score_round is: idle (not in it), select, confirm, newcode
    cur,         \* the index in rounds of the round score_round works on
    pending,     \* score_round's `pending` set (indices of matches)
    editidx,     \* the index of the match being edited
    edits,       \* the number of results rolled back so far
    store,       \* the TournamentRepository object and the file it writes
    match,       \* a Match object a caller holds
    disk,        \* whether writes to the tournaments file can fail
    directory    \* the players file: a record for each player

vars == <<tournament, call, flow, pc, cur, pending, editidx, edits, store, match, disk, directory>>

scorevars == <<pc, cur, pending, editidx, edits>>

\* The number of two-player matches whose result is a defeat or a draw.
NonWinCount(t) ==
    SumSeq([ r \in 1..Len(t.rounds) |->
               Cardinality({ i \in 1..Len(t.rounds[r].matches) :
                               t.rounds[r].matches[i].result1 \in {"defaite", "nul"} }) ])

\* The codes a prompt is answered with.
CodesAllowed(t) == IF NonWinCount(t) < MaxNonWin THEN PromptCodes ELSE {"V"}

StartDates == { "", "preset" }

\* The record of a call: exc is the exception raised ("None" for none), ret
\* the value returned by score_round ("None" for the other calls and while
\* score_round is still running).
Call(op, exc, ret) == [ op |-> op, exc |-> exc, ret |-> ret ]

Init ==
    /\ tournament \in { NewTournament(sd, nr) :
                          sd \in StartDates, nr \in 1..MaxNumberRounds }
    /\ call = Call("none", "None", "None")
    /\ flow = "api"
    /\ pc = "idle"
    /\ cur = 0
    /\ pending = {}
    /\ editidx = 0
    /\ edits = 0
    /\ store = NewRepository(NoFile)
    /\ match = NoMatch
    /\ disk = "ok"
    /\ directory = <<>>

\* ------------------------------------------------------ engine operations
\* A caller adds the next new player, or one already on the roster.
AddPlayer ==
    /\ flow = "api" /\ pc = "idle"
    /\ \E id \in Ids :
         /\ id <= Len(tournament.players) + 1
         /\ LET r == add_player(tournament, id)
            IN  /\ tournament' = r.t
                /\ call' = Call("add_player", r.exc, "None")
    /\ UNCHANGED <<flow, scorevars>>
    /\ UNCHANGED <<store, match, disk, directory>>

\* A caller marks the tournament finished, at any instant.
MarkFinished ==
    /\ flow = "api" /\ pc = "idle"
    /\ \E now \in Clock :
         /\ tournament' = mark_finished(tournament, now)
         /\ call' = [ op |-> "mark_finished", exc |-> "None", ret |-> "None",
                      arg |-> now ]
    /\ UNCHANGED <<flow, scorevars>>
    /\ UNCHANGED <<store, match, disk, directory>>

StartFirstRound ==
    /\ flow = "api" /\ pc = "idle"
    /\ \E k \in ShuffleOutcomes :
         LET r == start_first_round(tournament, k)
         IN  /\ tournament' = r.t
             /\ call' = Call("start_first_round", r.exc, "None")
    /\ UNCHANGED <<flow, scorevars>>
    /\ UNCHANGED <<store, match, disk, directory>>

StartNextRound ==
    /\ flow = "api" /\ pc = "idle"
    /\ \E ks \in [ 1..Cardinality(ScoreValues(tournament)) -> ShuffleOutcomes ] :
         LET r == start_next_round(tournament, ks)
         IN  /\ tournament' = r.t
             /\ call' = Call("start_next_round", r.exc, "None")
    /\ UNCHANGED <<flow, scorevars>>
    /\ UNCHANGED <<store, match, disk, directory>>

\* The leader lists a caller passes: tied_leaders() itself, the empty list,
\* one id in three spellings, a list naming an id that is not on the roster,
\* and two roster ids written in lower case and padded.
LeaderInputs(t) ==
    { [ i \in 1..Len(tied_leaders(t)) |-> RawId(tied_leaders(t)[i]) ],
      <<>>,
      <<RawId(1), [ id |-> 1, form |-> "lower" ], BlankId>>,
      <<RawId(1), RawId(Len(t.players) + 1)>>,
      <<[ id |-> 2, form |-> "lower" ], [ id |-> 1, form |-> "padded" ], RawId(2)>> }

StartTiebreakRound ==
    /\ flow = "api" /\ pc = "idle"
    /\ tournament.current_round_number < MaxRoundNumber
    /\ \E leader_ids \in LeaderInputs(tournament), k \in ShuffleOutcomes :
         LET r == start_tiebreak_round(tournament, leader_ids, k)
         IN  /\ tournament' = r.t
             /\ call' = Call("start_tiebreak_round", r.exc, "None")
    /\ UNCHANGED <<flow, scorevars>>
    /\ UNCHANGED <<store, match, disk, directory>>

\* ----------------------------------------------------------- score_round
SetMatch(t, r, i, m) == [t EXCEPT !.rounds[r].matches[i] = m]

\* rnd.end_time = datetime.now().isoformat(...)
CloseRound(t, r) == [t EXCEPT !.rounds[r].end_time = "now"]

\* score_round(t, t.rounds[r]) up to its first prompt: the pending set is
\* built; with nothing pending the round is stamped and the confirmation
\* prompt comes next.
BeginScoreRound(t, r) ==
    LET p == PendingOf(t.rounds[r])
    IN  /\ cur' = r
        /\ pending' = p
        /\ editidx' = 0
        /\ call' = Call("score_round", "None", "None")
        /\ IF p = {}
           THEN tournament' = CloseRound(t, r) /\ pc' = "confirm"
           ELSE tournament' = t /\ pc' = "select"

\* score_round leaves, by an exception or by returning a value.
LeaveScoreRound(exc, value) ==
    /\ pc' = "idle"
    /\ call' = Call("score_round", exc, value)
    /\ cur' = 0
    /\ pending' = {}
    /\ editidx' = 0

\* "Quitter (annuler la saisie)" at the match menu: return False.
SelectQuit ==
    /\ pc = "select"
    /\ LeaveScoreRound("None", "False")
    /\ UNCHANGED <<tournament, flow, edits>>
    /\ UNCHANGED <<store, match, disk, directory>>

\* A pending match sel is selected and the result code entered for it.
EnterResultWith(sel, code) ==
    LET m == tournament.rounds[cur].matches[sel]
        r == IF m.player2 = NoPlayer /\ HasResult(m)
             THEN [ m |-> m, exc |-> "None" ]
             ELSE SetResultByCode(m, IF m.player2 = NoPlayer THEN "E" ELSE code)
        t1 == SetMatch(tournament, cur, sel, r.m)
        a == IF r.exc # "None" THEN [ scores |-> t1.scores, exc |-> r.exc ]
             ELSE IF m.player2 = NoPlayer /\ HasResult(m)
             THEN [ scores |-> t1.scores, exc |-> "None" ]
             ELSE ApplyPointsOnce(t1.scores, r.m)
        t2 == [t1 EXCEPT !.scores = a.scores]
    IN  IF a.exc # "None"
        THEN /\ tournament' = t2
             /\ LeaveScoreRound(a.exc, "None")
        ELSE /\ pending' = pending \ {sel}
             /\ UNCHANGED <<call, cur, editidx>>
             /\ IF pending \ {sel} = {}
                THEN tournament' = CloseRound(t2, cur) /\ pc' = "confirm"
                ELSE tournament' = t2 /\ pc' = "select"

\* A prompt for a result is answered.
EnterResult ==
    /\ pc = "select"
    /\ \E sel \in pending, code \in CodesAllowed(tournament) : EnterResultWith(sel, code)
    /\ UNCHANGED <<flow, edits>>
    /\ UNCHANGED <<store, match, disk, directory>>

\* "Confirmer le round": return True.
ConfirmRound ==
    /\ pc = "confirm"
    /\ LeaveScoreRound("None", "True")
    /\ UNCHANGED <<tournament, flow, edits>>
    /\ UNCHANGED <<store, match, disk, directory>>

\* "Annuler (retour)": return False.
AbortRound ==
    /\ pc = "confirm"
    /\ LeaveScoreRound("None", "False")
    /\ UNCHANGED <<tournament, flow, edits>>
    /\ UNCHANGED <<store, match, disk, directory>>

\* "Modifier un résultat": a match is chosen; unless it is a bye its points
\* are rolled back and the new result is asked for.
EditPick ==
    /\ pc = "confirm"
    /\ edits < MaxEdits
    /\ \E idx \in 1..Len(tournament.rounds[cur].matches) :
         LET m == tournament.rounds[cur].matches[idx]
         IN  IF m.player2 = NoPlayer
             THEN UNCHANGED <<tournament, pc, editidx, edits>>
             ELSE /\ tournament' = [tournament EXCEPT !.scores = RollbackPoints(@, m)]
                  /\ pc' = "newcode"
                  /\ editidx' = idx
                  /\ edits' = edits + 1
    /\ UNCHANGED <<call, flow, cur, pending>>
    /\ UNCHANGED <<store, match, disk, directory>>

\* The new result is given: set it and apply its points.
EditNewCode ==
    /\ pc = "newcode"
    /\ \E code \in CodesAllowed(tournament) :
         LET m == tournament.rounds[cur].matches[editidx]
             r == SetResultByCode(m, code)
             t1 == SetMatch(tournament, cur, editidx, r.m)
             a == ApplyPointsOnce(t1.scores, r.m)
         IN  /\ tournament' = [t1 EXCEPT !.scores = a.scores]
             /\ IF a.exc # "None"
                THEN LeaveScoreRound(a.exc, "None")
                ELSE pc' = "confirm" /\ editidx' = 0 /\ UNCHANGED <<call, cur, pending>>
    /\ UNCHANGED <<flow, edits>>
    /\ UNCHANGED <<store, match, disk, directory>>

\* The prompt for the new result is cancelled: the old points are restored.
EditCancel ==
    /\ pc = "newcode"
    /\ LET m == tournament.rounds[cur].matches[editidx]
           a == ApplyPointsOnce(tournament.scores, m)
       IN  /\ tournament' = [tournament EXCEPT !.scores = a.scores]
           /\ IF a.exc # "None"
              THEN LeaveScoreRound(a.exc, "None")
              ELSE pc' = "confirm" /\ editidx' = 0 /\ UNCHANGED <<call, cur, pending>>
    /\ UNCHANGED <<flow, edits>>
    /\ UNCHANGED <<store, match, disk, directory>>

\* ------------------------------------------------------ orchestrated flow
\* The flow is modelled as it runs once the roster of the stored record is
\* loaded: Player construction is taken to succeed in it (NewPlayer is what
\* the constructor does in this source).

\* The record _create_and_open_tournament stores, n players in it.
MetaRecord(n) ==
    [ name |-> Name(1, "plain"),
      location |-> "Paris",
      players |-> [ i \in 1..n |-> PlayerToDict(i) ],
      created_at |-> "created" ]

\* Tournament.from_dict of that record: start_date is created_at[:10],
\* repo_name the record's name, the ledger 0.0 for every roster id, and
\* number_rounds nr (from_dict takes 4 when the record has none).
LoadedTournament(n, nr) ==
    [NewTournament(DateOf(MetaRecord(n).created_at), nr) EXCEPT
        !.players = [ i \in 1..n |-> i ],
        !.scores = [ i \in 1..n |-> 0 ],
        !.repo_name = MetaRecord(n).name]

\* _is_started(tournament) and _is_finished(tournament) of the menu.
IsStarted(t) == t.started_at # "" \/ t.current_round_number > 0
IsFinished(t) == t.finished_at # ""

\* _is_started(t) and _is_finished(t) on a stored record; the status text
\* the menu compares with is not one Tournament.status gives.
RecordIsStarted(data) ==
    DictGet(data, "started_at", "") # "" \/ DictGet(data, "current_round_number", 0) # 0

RecordIsFinished(data) ==
    DictGet(data, "finished_at", "") # "" \/ DictGet(data, "status", "") = "Termin<U+221A><U+00A9>"

\* The test of _tournament_progress_percent on a stored match: no player2,
\* or a label that is not None, or both scores not None (to_dict always
\* writes the two scores as numbers).
MatchCountsClosed(m) ==
    \/ "player2" \notin DOMAIN m \/ m.player2 = NoPlayer
    \/ ("result1" \in DOMAIN m /\ m.result1 # "None")
    \/ ("result2" \in DOMAIN m /\ m.result2 # "None")
    \/ ("score1" \in DOMAIN m /\ "score2" \in DOMAIN m)

\* A stored round counted as closed by _tournament_progress_percent.
RoundCountsClosed(r) ==
    \/ DictGet(r, "end_time", "") # ""
    \/ LET matches == DictGet(r, "matches", <<>>)
       IN  Len(matches) > 0 /\ \A i \in 1..Len(matches) : MatchCountsClosed(matches[i])

\* int(round(num / den * 100)): Python rounds a half to the even integer.
RoundPercent(num, den) ==
    LET q == (num * 100) \div den
        rem == (num * 100) % den
    IN  IF 2 * rem < den THEN q
        ELSE IF 2 * rem > den THEN q + 1
        ELSE IF q % 2 = 0 THEN q ELSE q + 1

\* The table of _tournament_progress_percent for four planned rounds,
\* with the computed value for any other count.
FourRoundsTable(closed, pct) == IF closed \in 0..4 THEN 25 * closed ELSE pct

\* The variant without the clamp to 0..100.
ClampNone(pct) == pct

\* max(0, min(100, pct))
Clamp(pct) == IF pct < 0 THEN 0 ELSE IF pct > 100 THEN 100 ELSE pct

\* _tournament_progress_percent(t) on a stored record.
tournament_progress_percent(data) ==
    IF RecordIsFinished(data) THEN 100
    ELSE IF ~RecordIsStarted(data) THEN 0
    ELSE
      LET rounds == DictGet(data, "rounds", <<>>)
          nr == DictGet(data, "number_rounds", 0)
          total == IF nr <= 0 THEN Len(rounds) ELSE nr
          closed == Cardinality({ i \in 1..Len(rounds) : RoundCountsClosed(rounds[i]) })
      IN  IF total <= 0 THEN 0
          ELSE LET pct == RoundPercent(closed, total)
               IN  Clamp(IF total = 4 THEN FourRoundsTable(closed, pct) ELSE pct)

\* The record the repository holds under the name t is saved with.
StoredRecord(st, t) == get_tournament_by_name(st, ToDict(t).name)

\* repo.save_tournament(rec) as its caller sees it: the repository it
\* leaves and the exception raised.  A write that can fail fails at the
\* open of _persist (file untouched) or in json.dump (file truncated); the
\* list in memory has the record by then.
SaveOutcomes(st, rec, dsk) ==
    { [ store |-> SaveTournament(st, rec), exc |-> "None" ] }
      \cup IF dsk = "flaky"
           THEN { [ store |-> [st EXCEPT !.tournaments = save_tournament(@, rec)],
                    exc |-> "OSError" ],
                  [ store |-> [st EXCEPT !.tournaments = save_tournament(@, rec),
                                         !.file = Truncated],
                    exc |-> "OSError" ] }
           ELSE {}

\* The players file with the n players of the roster: what the flow reads
\* of a player is the national_id and the count of tournaments won.
DirectoryOf(n) == [ i \in 1..n |-> [ national_id |-> i, tournaments_won |-> 0 ] ]

\* Player.record_tournament_win().
record_tournament_win(p) == [p EXCEPT !.tournaments_won = @ + 1]

\* by_id = {p.national_id: p for p in players}; list(by_id.values()): one
\* entry for each id, at the place of its first player, holding its last.
ByIdValues(players) ==
    LET firsts == SelectSeq([ i \in 1..Len(players) |-> i ],
                     LAMBDA i : \A j \in 1..(i - 1) :
                                  players[j].national_id # players[i].national_id)
        last(id) == Max({ j \in 1..Len(players) : players[j].national_id = id })
    IN  [ x \in 1..Len(firsts) |-> players[last(players[firsts[x]].national_id)] ]

\* Step 5 of run_rounds_until_done: with a player controller, the winner's
\* count goes up by one and the players are saved; without one, nothing.
BumpWinner(players, wid, player_controller) ==
    IF player_controller = "None" THEN players
    ELSE IF \A i \in 1..Len(players) : players[i].national_id # wid THEN players
    ELSE LET by_id == ByIdValues(players)
         IN  [ i \in 1..Len(by_id) |->
                 IF by_id[i].national_id = wid THEN record_tournament_win(by_id[i])
                 ELSE by_id[i] ]

\* The player_controller the menu hands to run_rounds_until_done: the
\* argument is left out of both calls, so it is None.
MenuPlayerController == "None"

\* The menu over tournament t with store st.
MenuOver(t, st, dsk) ==
    /\ tournament = t
    /\ store = st
    /\ directory = DirectoryOf(Len(t.players))
    /\ call = Call("none", "None", "None")
    /\ flow = "menu"
    /\ pc = "idle"
    /\ cur = 0
    /\ pending = {}
    /\ editidx = 0
    /\ edits = 0
    /\ match = NoMatch
    /\ disk = dsk

\* The menu with the stored record of a tournament of n players, n in ns.
FlowStart(ns, dsk) ==
    \E n \in ns :
       MenuOver(LoadedTournament(n, MaxNumberRounds),
                SaveTournament(NewRepository(NoFile), MetaRecord(n)), dsk)

FlowInit == FlowStart(MinPlayers..MaxPlayers, "ok")

\* An exception of repo.save_tournament that nothing catches: it leaves
\* _launch_tournament_flow or _resume_tournament_flow and the menu.
Uncaught(exc) ==
    /\ flow' = "crashed"
    /\ call' = Call("save_tournament", exc, "None")

\* run_rounds_until_done has returned: _launch_tournament_flow and
\* _resume_tournament_flow save the model and return to the menu.
ReturnToMenu(t) ==
    \E o \in SaveOutcomes(store, ToDict(t), disk) :
      /\ store' = o.store
      /\ IF o.exc = "None"
         THEN flow' = "menu" /\ UNCHANGED call
         ELSE Uncaught(o.exc)

\* "Lancer le tournoi": launch_first_round_flow, the save of the model with
\* its first round, then run_rounds_until_done up to the first prompt of
\* score_round.  A failed start_first_round drops the model that was being
\* built.
Launch ==
    /\ flow = "menu" /\ pc = "idle"
    /\ ~IsStarted(tournament) /\ ~IsFinished(tournament)
    /\ roster_size(tournament) >= MinPlayers
    /\ \E k \in FlowShuffleOutcomes :
         LET r == start_first_round(tournament, k)
         IN  IF r.exc # "None"
             THEN /\ call' = Call("start_first_round", r.exc, "None")
                  /\ UNCHANGED <<tournament, flow, pc, cur, pending, editidx, store>>
             ELSE \E o \in SaveOutcomes(store, ToDict(r.t), disk) :
                    /\ store' = o.store
                    /\ IF o.exc = "None"
                       THEN /\ BeginScoreRound(r.t, Len(r.t.rounds))
                            /\ flow' = "step1"
                       ELSE /\ tournament' = r.t
                            /\ Uncaught(o.exc)
                            /\ UNCHANGED <<pc, cur, pending, editidx>>
    /\ UNCHANGED <<edits, match, disk, directory>>

\* "Reprendre la saisie / continuer": run_rounds_until_done on the model of
\* the stored record (the one the last return to the menu saved), up to the
\* first prompt of score_round on the latest round.
Resume ==
    /\ flow = "menu" /\ pc = "idle"
    /\ IsStarted(tournament) /\ ~IsFinished(tournament)
    /\ Len(tournament.rounds) >= 1
    /\ BeginScoreRound(tournament, Len(tournament.rounds))
    /\ flow' = "step1"
    /\ UNCHANGED edits
    /\ UNCHANGED <<store, match, disk, directory>>

\* _score_and_persist_round returned False (score_round raised, or returned
\* False): run_rounds_until_done returns.
RoundNotDone ==
    /\ flow \in {"step1", "step2", "step3"} /\ pc = "idle"
    /\ call.exc # "None" \/ call.ret # "True"
    /\ ReturnToMenu(tournament)
    /\ UNCHANGED <<tournament, scorevars, match, disk, directory>>

\* _score_and_persist_round taken to return True whatever score_round
\* returned.
RoundDoneUnconfirmed ==
    /\ flow \in {"step1", "step2", "step3"} /\ pc = "idle"
    /\ \E o \in SaveOutcomes(store, ToDict(tournament), disk) : store' = o.store
    /\ flow' = IF flow = "step3" THEN "loop3" ELSE "loop2"
    /\ UNCHANGED <<tournament, call, scorevars, match, disk, directory>>

\* _score_and_persist_round returned True: the model was saved, a failure
\* of the save being caught and reported, and the flow goes on to the loop
\* the round was scored in.
RoundDone ==
    /\ flow \in {"step1", "step2", "step3"} /\ pc = "idle"
    /\ call.exc = "None" /\ call.ret = "True"
    /\ \E o \in SaveOutcomes(store, ToDict(tournament), disk) : store' = o.store
    /\ flow' = IF flow = "step3" THEN "loop3" ELSE "loop2"
    /\ UNCHANGED <<tournament, call, scorevars, match, disk, directory>>

\* while model.current_round_number < model.number_rounds: the next round is
\* created and score_round entered; an exception breaks out of the loop.
NextRoundLoop ==
    /\ flow = "loop2" /\ pc = "idle"
    /\ IF tournament.current_round_number < tournament.number_rounds
       THEN \E ks \in [ 1..Cardinality(ScoreValues(tournament)) -> FlowShuffleOutcomes ] :
              LET r == start_next_round(tournament, ks)
              IN  IF r.exc # "None"
                  THEN /\ tournament' = r.t
                       /\ call' = Call("start_next_round", r.exc, "None")
                       /\ flow' = "loop3"
                       /\ UNCHANGED <<pc, cur, pending, editidx>>
                  ELSE /\ BeginScoreRound(r.t, Len(r.t.rounds))
                       /\ flow' = "step2"
       ELSE /\ flow' = "loop3"
            /\ UNCHANGED <<tournament, call, pc, cur, pending, editidx>>
    /\ UNCHANGED edits
    /\ UNCHANGED <<store, match, disk, directory>>

\* while model.have_first_place_tie(): a tiebreak round among the leaders is
\* created and score_round entered; an exception breaks out of the loop.
TiebreakLoop ==
    /\ flow = "loop3" /\ pc = "idle"
    /\ IF have_first_place_tie(tournament)
       THEN /\ tournament.current_round_number < MaxRoundNumber
            /\ \E k \in FlowShuffleOutcomes :
                 LET leaders == tied_leaders(tournament)
                     r == start_tiebreak_round(tournament,
                              [ i \in 1..Len(leaders) |-> RawId(leaders[i]) ], k)
                 IN  IF r.exc # "None"
                     THEN /\ tournament' = r.t
                          /\ call' = Call("start_tiebreak_round", r.exc, "None")
                          /\ flow' = "finish"
                          /\ UNCHANGED <<pc, cur, pending, editidx>>
                     ELSE /\ BeginScoreRound(r.t, Len(r.t.rounds))
                          /\ flow' = "step3"
       ELSE /\ flow' = "finish"
            /\ UNCHANGED <<tournament, call, pc, cur, pending, editidx>>
    /\ UNCHANGED edits
    /\ UNCHANGED <<store, match, disk, directory>>

\* The prompt before closing is interrupted (KeyboardInterrupt):
\* run_rounds_until_done returns.
FinishInterrupted ==
    /\ flow = "finish" /\ pc = "idle"
    /\ ReturnToMenu(tournament)
    /\ UNCHANGED <<tournament, scorevars, match, disk, directory>>

\* Steps 5 and 6 of run_rounds_until_done: the winner, if there is one, is
\* recorded, the tournament is marked finished and saved, a failure of the
\* save being caught and reported; run_rounds_until_done returns.
Finalize ==
    /\ flow = "finish" /\ pc = "idle"
    /\ LET wid == compute_winner_id(tournament)
           t1 == IF wid # NoPlayer THEN [tournament EXCEPT !.winner_id = wid]
                 ELSE tournament
           t2 == mark_finished(t1, "now")
       IN  /\ tournament' = t2
           /\ directory' = IF wid # NoPlayer
                            THEN BumpWinner(directory, wid, MenuPlayerController)
                            ELSE directory
           /\ \E o1 \in SaveOutcomes(store, ToDict(t2), disk) :
                \E o2 \in SaveOutcomes(o1.store, ToDict(t2), disk) :
                  /\ store' = o2.store
                  /\ IF o2.exc = "None"
                     THEN flow' = "menu" /\ UNCHANGED call
                     ELSE Uncaught(o2.exc)
    /\ UNCHANGED <<scorevars, match, disk>>

\* The codes given for the matches of a first round scored through the
\* engine: a win for player 1 or a draw in each match.
EngineCodes == [ 1..(MinPlayers \div 2) -> {"V", "N"} ]

\* A tournament of one planned round whose first round was started, scored
\* and credited through the engine: start_first_round, set_result_by_code
\* on each match, update_scores_from_round.
ScoredThroughEngine(codes) ==
    LET t0 == start_first_round(LoadedTournament(MinPlayers, 1), 0).t
        ms == [ i \in 1..Len(t0.rounds[1].matches) |->
                  SetResultByCode(t0.rounds[1].matches[i], codes[i]).m ]
        t1 == [t0 EXCEPT !.rounds[1].matches = ms]
    IN  update_scores_from_round(t1, t1.rounds[1])

\* The menu over a tournament of one planned round: not yet launched, or
\* with a first round scored through the engine and saved.
WinnerInit ==
    \/ MenuOver(LoadedTournament(MinPlayers, 1),
                SaveTournament(NewRepository(NoFile), MetaRecord(MinPlayers)), "ok")
    \/ \E codes \in EngineCodes :
         MenuOver(ScoredThroughEngine(codes),
                  SaveTournament(NewRepository(NoFile),
                                 ToDict(ScoredThroughEngine(codes))), "ok")

\* The same menu over a file whose writes can fail.
FaultInit == FlowStart({MinPlayers}, "flaky")

\* ------------------------------------------------- the repository alone
\* The names a caller gives the records it saves: each key as stored, in
\* upper case and padded, the empty name and a name of blanks.
RepoNames ==
    { Name(k, form) : k \in 1..MaxNames, form \in {"plain", "upper", "padded"} }
      \cup { EmptyName, Name(0, "blank") }

\* The records a caller saves: a name and a content.
RepoRecords == { [ name |-> n, data |-> d ] : n \in RepoNames, d \in 1..MaxData }

\* The record of a repository call: arg is its argument, again tells that
\* the call before it was the same call with the same argument.
CallWith(op, exc, ret, arg) ==
    [ op |-> op, exc |-> exc, ret |-> ret, arg |-> arg,
      again |-> call.op = op /\ call.arg = arg ]

RepoInit ==
    /\ tournament = NewTournament("", 1)
    /\ call = [ op |-> "open", exc |-> "None", ret |-> "None", arg |-> "None",
                again |-> FALSE ]
    /\ flow = "repository"
    /\ pc = "idle"
    /\ cur = 0
    /\ pending = {}
    /\ editidx = 0
    /\ edits = 0
    /\ store = NewRepository(NoFile)
    /\ match = NoMatch
    /\ disk = "ok"
    /\ directory = <<>>

repovars == <<tournament, flow, pc, cur, pending, editidx, edits, match, disk, directory>>

\* save_tournament(rec) up to the open(..., "w") of _persist: the list in
\* memory holds the record, the file has been truncated.
SaveBegin ==
    /\ flow = "repository"
    /\ ~store.writing
    /\ \E rec \in RepoRecords :
         /\ Len(save_tournament(store.tournaments, rec)) <= MaxStored
         /\ store' = [store EXCEPT !.tournaments = save_tournament(@, rec),
                                   !.file = Truncated,
                                   !.writing = TRUE]
         /\ call' = CallWith("save_tournament", "None", "None", rec)
    /\ UNCHANGED repovars

\* json.dump and the close of _persist: the file holds the list.
SaveEnd ==
    /\ flow = "repository"
    /\ store.writing
    /\ store' = Persist(store)
    /\ UNCHANGED <<call, repovars>>

\* The process stops (at any moment, a rewrite included) and a new
\* TournamentRepository is opened on the same directory.
Reopen ==
    /\ flow = "repository"
    /\ store' = NewRepository(store.file)
    /\ call' = CallWith("open", "None", "None", "None")
    /\ UNCHANGED repovars

\* get_tournament_by_name(name)
GetTournamentByName ==
    /\ flow = "repository"
    /\ ~store.writing
    /\ \E name \in RepoNames :
         call' = CallWith("get_tournament_by_name", "None",
                          get_tournament_by_name(store, name), name)
    /\ UNCHANGED <<store, repovars>>

\* ------------------------------------------------------ a match alone
\* The codes a caller passes to set_result_by_code: the four documented
\* codes, lower-case and padded spellings, None, blanks and other text.
RawCodes == { "V", "D", "N", "E", "v", " d ", "n", "e", " V", "x", "X",
              "None", "  ", "VV", "1" }

\* The scores a caller passes to play_match, in half points: numbers (3 is
\* 1.5, 4 is 2.0) and texts ("1.0", "0", and -1 for a text that is no
\* number).
RawScores ==
    { [ kind |-> "number", v |-> n ] : n \in 0..4 }
      \cup { [ kind |-> "text", v |-> x ] : x \in { 2, 0, -1 } }

MatchInit ==
    /\ tournament = NewTournament("", 1)
    /\ call = [ op |-> "Match", exc |-> "None", ret |-> "None", arg |-> "None",
                again |-> FALSE ]
    /\ flow = "match"
    /\ pc = "idle"
    /\ cur = 0
    /\ pending = {}
    /\ editidx = 0
    /\ edits = 0
    /\ store = NewRepository(NoFile)
    /\ disk = "ok"
    /\ directory = <<>>
    /\ \E p1 \in 1..MaxMatchPlayers, p2 \in 1..MaxMatchPlayers :
         /\ p1 # p2
         /\ match = NewMatch(p1, p2).m

\* A match, with records of any origin to rebuild it from.
RecordInit ==
    /\ tournament = NewTournament("", 1)
    /\ call = [ op |-> "Match", exc |-> "None", ret |-> "None", arg |-> "None",
                again |-> FALSE ]
    /\ flow = "records"
    /\ pc = "idle"
    /\ cur = 0
    /\ pending = {}
    /\ editidx = 0
    /\ edits = 0
    /\ store = NewRepository(NoFile)
    /\ disk = "ok"
    /\ directory = <<>>
    /\ \E p1 \in 1..MaxMatchPlayers, p2 \in 1..MaxMatchPlayers :
         /\ p1 # p2
         /\ match = NewMatch(p1, p2).m

\* match.set_result_by_code(code)
SetResult ==
    /\ flow \in {"match", "records"}
    /\ \E code \in RawCodes :
         LET r == SetResultByCode(match, code)
         IN  /\ match' = r.m
             /\ call' = CallWith("set_result_by_code", r.exc, "None", code)
    /\ UNCHANGED <<tournament, flow, pc, cur, pending, editidx, edits, store, disk, directory>>

\* The match records a file holds: two ids (None for player2 of a bye), the
\* scores and the labels (of a bye for a bye, of no result or of a win for
\* two players).
StoredMatches ==
    { d \in { [ player1 |-> p1, player2 |-> p2, score1 |-> x[1], score2 |-> x[2],
                result1 |-> x[3], result2 |-> x[4] ] :
                p1 \in 1..MaxLookup, p2 \in 0..MaxMatchPlayers,
                x \in { <<0, 0, "None", "None">>, <<2, 0, "victoire", "defaite">>,
                        <<2, 0, "exempt", "None">> } } :
        /\ d.player1 # d.player2
        /\ d.player2 = NoPlayer <=> d.result1 = "exempt" }

\* Match records that were not written by Match.to_dict, which from_dict
\* accepts: the labels missing (read as None) or empty, scores given or not.
PartialMatches ==
    { d \in { [ player1 |-> p1, player2 |-> p2, score1 |-> x[1], score2 |-> x[2],
                result1 |-> x[3], result2 |-> x[4] ] :
                p1 \in 1..MaxLookup, p2 \in 1..MaxMatchPlayers,
                x \in { <<2, 0, "None", "None">>, <<1, 1, "", "">>,
                        <<0, 0, "", "">> } } :
        d.player1 # d.player2 }

\* match = Match.from_dict(data, player_lookup); the caller keeps the match
\* it had when the call raises.
LoadMatch ==
    /\ flow \in {"match", "records"}
    /\ \E data \in (IF flow = "records" THEN StoredMatches \cup PartialMatches
                    ELSE StoredMatches),
          player_lookup \in SUBSET (1..MaxLookup) :
         LET r == MatchFromDict(data, player_lookup)
         IN  /\ match' = IF r.exc = "None" THEN r.m ELSE match
             /\ call' = CallWith("from_dict", r.exc, r.key, <<data, player_lookup>>)
    /\ UNCHANGED <<tournament, flow, pc, cur, pending, editidx, edits, store, disk, directory>>

\* match.play_match(score1, score2)
PlayMatch ==
    /\ flow \in {"match", "records"}
    /\ \E score1 \in RawScores, score2 \in RawScores :
         LET r == play_match(match, score1, score2)
         IN  /\ match' = r.m
             /\ call' = CallWith("play_match", r.exc, "None", <<score1, score2>>)
    /\ UNCHANGED <<tournament, flow, pc, cur, pending, editidx, edits, store, disk, directory>>

\* ---------------------------------------------------------- specification
\* The engine, called in any order by a caller.
Next ==
    \/ AddPlayer
    \/ StartFirstRound
    \/ StartNextRound
    \/ StartTiebreakRound

Spec == Init /\ [][Next]_vars

\* An engine client over a roster of even or odd size: it starts the first
\* round, gives each match a result and credits the round once.
LedgerInit ==
    /\ tournament \in { LoadedTournament(n, 1) : n \in MinPlayers..MaxPlayers }
    /\ call = Call("none", "None", "None")
    /\ flow = "ledger"
    /\ pc = "idle"
    /\ cur = 0
    /\ pending = {}
    /\ editidx = 0
    /\ edits = 0
    /\ store = NewRepository(NoFile)
    /\ match = NoMatch
    /\ disk = "ok"
    /\ directory = <<>>

\* tournament.start_first_round()
LedgerFirstRound ==
    /\ flow = "ledger"
    /\ \E k \in FlowShuffleOutcomes :
         LET r == start_first_round(tournament, k)
         IN  /\ tournament' = r.t
             /\ call' = Call("start_first_round", r.exc, "None")
    /\ UNCHANGED <<flow, scorevars, store, match, disk, directory>>

\* match.set_result_by_code(code) on the first match of the latest round
\* that has no result.
LedgerSetResult ==
    /\ flow = "ledger"
    /\ Len(tournament.rounds) > 0
    /\ PendingOf(tournament.rounds[Len(tournament.rounds)]) # {}
    /\ \E code \in PromptCodes :
         LET r == Len(tournament.rounds)
             i == CHOOSE x \in PendingOf(tournament.rounds[r]) :
                    \A y \in PendingOf(tournament.rounds[r]) : x <= y
             res == SetResultByCode(tournament.rounds[r].matches[i], code)
         IN  /\ tournament' = SetMatch(tournament, r, i, res.m)
             /\ call' = Call("set_result_by_code", res.exc, "None")
    /\ UNCHANGED <<flow, scorevars, store, match, disk, directory>>

\* tournament.update_scores_from_round(round), once, on the latest round
\* when each of its matches has a result; cur counts the rounds credited.
LedgerUpdateScores ==
    /\ flow = "ledger"
    /\ Len(tournament.rounds) > cur
    /\ PendingOf(tournament.rounds[Len(tournament.rounds)]) = {}
    /\ tournament' = update_scores_from_round(tournament,
                                              tournament.rounds[Len(tournament.rounds)])
    /\ cur' = Len(tournament.rounds)
    /\ call' = Call("update_scores_from_round", "None", "None")
    /\ UNCHANGED <<flow, pc, pending, editidx, edits, store, match, disk, directory>>

LedgerNext ==
    \/ LedgerFirstRound
    \/ LedgerSetResult
    \/ LedgerUpdateScores

LedgerSpec == LedgerInit /\ [][LedgerNext]_vars

\* The engine with mark_finished among the operations called.
FinishNext ==
    \/ AddPlayer
    \/ StartFirstRound
    \/ StartNextRound
    \/ StartTiebreakRound
    \/ MarkFinished

FinishSpec == Init /\ [][FinishNext]_vars

\* A caller of a new repository on a new data directory: it saves and adds
\* records in any order.  cur counts the saves made with an empty name,
\* pending holds the keys of the other names saved.
UpsertInit ==
    /\ tournament = NewTournament("", 1)
    /\ call = [ op |-> "open", exc |-> "None", ret |-> "None", arg |-> "None",
                again |-> FALSE ]
    /\ flow = "upsert"
    /\ pc = "idle"
    /\ cur = 0
    /\ pending = {}
    /\ editidx = 0
    /\ edits = 0
    /\ store = NewRepository(NoFile)
    /\ match = NoMatch
    /\ disk = "ok"
    /\ directory = <<>>

\* One call that stores rec, under the name op.
Upsert(op, rec) ==
    /\ Len(save_tournament(store.tournaments, rec)) <= MaxStored
    /\ store' = SaveTournament(store, rec)
    /\ call' = CallWith(op, "None", "None", rec)
    /\ cur' = IF NormalizeName(rec.name) = 0 THEN cur + 1 ELSE cur
    /\ pending' = IF NormalizeName(rec.name) = 0 THEN pending
                  ELSE pending \cup {NormalizeName(rec.name)}
    /\ UNCHANGED <<tournament, flow, pc, editidx, edits, match, disk, directory>>

\* repo.save_tournament(rec)
SaveTournamentCall ==
    /\ flow = "upsert"
    /\ \E rec \in RepoRecords : Upsert("save_tournament", rec)

\* repo.add_tournament(rec): self.save_tournament(rec)
AddTournamentCall ==
    /\ flow = "upsert"
    /\ \E rec \in RepoRecords : Upsert("add_tournament", rec)

UpsertNext ==
    \/ SaveTournamentCall
    \/ AddTournamentCall

UpsertSpec == UpsertInit /\ [][UpsertNext]_vars

\* The program as the menu drives it: launch, score, resume, finish.
FlowNext ==
    \/ Launch
    \/ Resume
    \/ SelectQuit
    \/ EnterResult
    \/ ConfirmRound
    \/ AbortRound
    \/ EditPick
    \/ EditNewCode
    \/ EditCancel
    \/ RoundNotDone
    \/ RoundDone
    \/ NextRoundLoop
    \/ TiebreakLoop
    \/ FinishInterrupted
    \/ Finalize

FlowSpec == FlowInit /\ [][FlowNext]_vars

\* The flow over a file whose writes can fail.
FaultSpec == FaultInit /\ [][FlowNext]_vars

\* The flow over tournaments whose ledger the engine has credited.
WinnerSpec == WinnerInit /\ [][FlowNext]_vars

\* The repository, called in any order, with the process stopping at any
\* moment.
RepoNext ==
    \/ SaveBegin
    \/ SaveEnd
    \/ Reopen
    \/ GetTournamentByName

RepoSpec == RepoInit /\ [][RepoNext]_vars


\* The texts typed for a name: valid, empty, or refused by is_valid_name.
TypedNames == { "ok", "", "bad" }

\* The texts typed for a national id: two letters and five digits in
\* upper or lower case, nothing, or text is_valid_id refuses.
TypedIds ==
    { [ id |-> n, form |-> f ] : n \in 1..MaxDirectoryIds, f \in {"upper", "lower"} }
      \cup { BlankId, [ id |-> 1, form |-> "bad" ] }

\* is_valid_id(national_id): ^[A-Za-z]{2}\d{5}$
is_valid_id(raw) == raw.form \in {"upper", "lower"}

\* PlayerController.load_players(): no player for a missing or empty
\* file; each stored player goes through Player.from_dict, whose KeyError
\* is not among the exceptions caught.
load_players(file) ==
    LET made == [ i \in 1..Len(file) |-> PlayerFromDict(file[i]) ]
    IN  IF \E i \in 1..Len(made) : made[i].exc # "None"
        THEN [ players |-> <<>>, exc |-> "KeyError" ]
        ELSE [ players |-> file, exc |-> "None" ]

\* PlayerController.add_new_player(last_name, first_name, birthdate,
\* national_id) with a valid birthdate: the file it leaves, the value
\* returned and the exception raised.  The validator of a label is
\* VALIDATION_MAP.get(label): none for a label the table does not hold.
\* The id typed is compared as typed with the stored ids, which are in
\* upper case.
add_new_player(file, last_name, first_name, national_id) ==
    LET refuse(msg) == [ file |-> file, ret |-> msg, exc |-> "None" ]
        raise(exc) == [ file |-> file, ret |-> "None", exc |-> exc ]
        validated(label) == label \in VALIDATION_MAP
        loaded == load_players(file)
        new_player == NewPlayer(NormalizeId(national_id))
    IN  IF last_name = "" THEN refuse("obligatoire")
        ELSE IF validated("Nom de famille") /\ last_name = "bad" THEN refuse("invalide")
        ELSE IF first_name = "" THEN refuse("obligatoire")
        ELSE IF validated("Pr<U+00E9>nom") /\ first_name = "bad" THEN refuse("invalide")
        ELSE IF national_id.form = "blank" THEN refuse("obligatoire")
        ELSE IF validated("Identifiant national") /\ ~is_valid_id(national_id)
             THEN refuse("invalide")
        ELSE IF loaded.exc # "None" THEN raise(loaded.exc)
        ELSE IF \E i \in 1..Len(loaded.players) :
                   national_id.form = "upper"
                     /\ loaded.players[i].national_id = national_id.id
             THEN refuse("deja utilise")
        ELSE IF new_player.exc # "None" THEN raise(new_player.exc)
        ELSE IF first_name = "bad" THEN refuse("erreur systeme")
        ELSE [ file |-> Append(loaded.players,
                               [ national_id |-> new_player.p, tournaments_won |-> 0 ]),
               ret |-> "True", exc |-> "None" ]

\* The players files: at most one stored player for each national id.
PlayerFiles ==
    { f \in UNION { [ 1..n -> { [ national_id |-> i, tournaments_won |-> 0 ] :
                                  i \in 1..MaxDirectoryIds } ] : n \in 0..MaxDirectoryIds } :
        \A i, j \in DOMAIN f : i # j => f[i].national_id # f[j].national_id }

\* The player menu over a players file.
DirectoryInit ==
    /\ tournament = NewTournament("", 1)
    /\ call = [ op |-> "none", exc |-> "None", ret |-> "None", arg |-> "None",
                again |-> FALSE ]
    /\ flow = "players"
    /\ pc = "idle"
    /\ cur = 0
    /\ pending = {}
    /\ editidx = 0
    /\ edits = 0
    /\ match = NoMatch
    /\ disk = "ok"
    /\ store = NewRepository(NoFile)
    /\ directory \in PlayerFiles

\* controller.add_new_player(...) with any texts typed.
AddNewPlayer ==
    /\ flow = "players"
    /\ \E last_name \in TypedNames, first_name \in TypedNames, national_id \in TypedIds :
         LET r == add_new_player(directory, last_name, first_name, national_id)
         IN  /\ directory' = r.file
             /\ call' = CallWith("add_new_player", r.exc, r.ret,
                                 <<last_name, first_name, national_id>>)
    /\ UNCHANGED <<tournament, flow, pc, cur, pending, editidx, edits, store, match,
                   disk>>

DirectorySpec == DirectoryInit /\ [][AddNewPlayer]_vars

\* A name "tournament_<n>_<slug>_<date>" in a given form; the day is part
\* of what slug stands for.  The keys of other names are below NumberedBase.
NumberedBase == 10
NumberedName(n, slug, form) == Name(NumberedBase * slug + n, form)

\* pattern.match(name) and int(m.group(1)): the number of a name that
\* starts with "tournament_<digits>_", 0 when the pattern does not match.
\* The match is at the first character and of lower-case letters, so a
\* name in upper case or with spaces before it does not match.
ParsedNumber(name) ==
    IF name.form = "plain" /\ name.key >= NumberedBase THEN name.key % NumberedBase
    ELSE 0

\* slugify_location(loc): stripped, lower-cased, reduced to [a-z0-9_].
slugify_location(loc) == loc.key

\* max_id of generate_tournament_name over the existing records.
MaxId(existing) == Max({0} \cup { ParsedNumber(existing[i].name) : i \in 1..Len(existing) })

\* generate_tournament_name(location, existing_tournaments)
generate_tournament_name(location, existing) ==
    NumberedName(MaxId(existing) + 1, slugify_location(location), "plain")

\* The locations _prompt_location returns: typed text, stripped.
Locations == { Name(s, form) : s \in 1..MaxSlugs, form \in {"plain", "upper"} }

\* The names of the records of a tournaments file: numbered names in any
\* form, and one name that is not numbered.
FileNames ==
    { NumberedName(n, s, form) :
        n \in 1..MaxNumber, s \in 1..MaxSlugs, form \in {"plain", "upper", "padded"} }
      \cup { Name(1, "plain") }

\* The meta record of _create_and_open_tournament.
MetaOf(name, location) ==
    [ name |-> name, location |-> location, players |-> <<>>, created_at |-> "created" ]

\* The menu over a tournaments file of at most two records of distinct keys.
NameInit ==
    /\ tournament = NewTournament("", 1)
    /\ call = [ op |-> "none", exc |-> "None", ret |-> "None", arg |-> "None",
                again |-> FALSE ]
    /\ flow = "names"
    /\ pc = "idle"
    /\ cur = 0
    /\ pending = {}
    /\ editidx = 0
    /\ edits = 0
    /\ match = NoMatch
    /\ disk = "ok"
    /\ directory = <<>>
    /\ \E names \in UNION { [ 1..n -> FileNames ] : n \in 0..2 } :
         /\ \A i, j \in DOMAIN names :
              i # j => NormalizeName(names[i]) # NormalizeName(names[j])
         /\ store = NewRepository(FileOf(
                        [ i \in DOMAIN names |-> MetaOf(names[i], Name(1, "plain")) ]))

\* _create_and_open_tournament(repo, location, players, ...) up to the
\* message that the tournament was created.
CreateTournament ==
    /\ flow = "names"
    /\ Len(store.tournaments) < MaxStored
    /\ \E location \in Locations :
         LET existing == store.tournaments
             name == generate_tournament_name(location, existing)
         IN  /\ name.key % NumberedBase <= MaxNumber + MaxStored
             /\ store' = SaveTournament(store, MetaOf(name, location))
             /\ call' = CallWith("generate_tournament_name", "None", name, location)
    /\ UNCHANGED <<tournament, flow, pc, cur, pending, editidx, edits, match, disk,
                   directory>>

NameSpec == NameInit /\ [][CreateTournament]_vars

\* The stored rounds a record can hold: closed with a scored match, open
\* with an unscored match, and without matches.
StoredRounds ==
    { RoundToDict(CloseRound([ rounds |-> <<AddMatch(NewRound(1),
                                  SetResultByCode(NewMatch(1, 2).m, "V").m)>> ], 1).rounds[1]),
      RoundToDict(AddMatch(NewRound(1), NewMatch(1, 2).m)),
      RoundToDict(NewRound(1)) }

\* The planned numbers of rounds of the records.
PlannedRounds == { 3, 4 }

\* The stored records of launched tournaments: any rounds, finished or not.
ProgressRecords ==
    { [ToDict(f) EXCEPT !.rounds = rs, !.current_round_number = Len(rs)] :
        f \in { mark_launched(LoadedTournament(MinPlayers, nr)) : nr \in PlannedRounds }
               \cup { mark_finished(mark_launched(LoadedTournament(MinPlayers, nr)), "now") :
                        nr \in PlannedRounds },
        rs \in UNION { [ 1..n -> StoredRounds ] : n \in 0..MaxStoredRounds } }

\* The menu over a repository that holds one such record.
ProgressInit ==
    /\ tournament = NewTournament("", 1)
    /\ call = [ op |-> "none", exc |-> "None", ret |-> "None", arg |-> "None",
                again |-> FALSE ]
    /\ flow = "progress"
    /\ pc = "idle"
    /\ cur = 0
    /\ pending = {}
    /\ editidx = 0
    /\ edits = 0
    /\ match = NoMatch
    /\ disk = "ok"
    /\ directory = <<>>
    /\ \E rec \in ProgressRecords : store = SaveTournament(NewRepository(NoFile), rec)

\* _status_label_plain(t): the progress of a record of the repository.
ShowProgress ==
    /\ flow = "progress"
    /\ \E i \in 1..Len(store.tournaments) :
         call' = CallWith("progress", "None",
                          tournament_progress_percent(store.tournaments[i]),
                          store.tournaments[i])
    /\ UNCHANGED <<tournament, flow, pc, cur, pending, editidx, edits, store, match,
                   disk, directory>>

ProgressSpec == ProgressInit /\ [][ShowProgress]_vars

\* One match, given any sequence of result codes and scores.
MatchNext ==
    \/ SetResult
    \/ PlayMatch
    \/ LoadMatch

MatchSpec == MatchInit /\ [][MatchNext]_vars

\* One match, rebuilt from records of any origin.
RecordSpec == RecordInit /\ [][MatchNext]_vars

\* ------------------------------------------------------------- properties
\* The step is a call of op (every call records itself in `call`).
IsCall(op) == call'.op = op

LastRound(t) == t.rounds[Len(t.rounds)]

\* The points the match m attributes to the player id.
MatchPointsTo(m, id) ==
    IF m.player1 = id THEN m.score1
    ELSE IF m.player2 = id THEN m.score2
    ELSE 0

\* The sum, over all matches of all rounds, of the points attributed to id.
PointsOf(t, id) ==
    SumSeq([ r \in 1..Len(t.rounds) |->
               SumSeq([ i \in 1..Len(t.rounds[r].matches) |->
                          MatchPointsTo(t.rounds[r].matches[i], id) ]) ])

LedgerConsistent(t) ==
    \A i \in 1..Len(t.players) : Get(t.scores, t.players[i]) = PointsOf(t, t.players[i])

\* C1: ledger consistency.  In every state of the engine and its scoring
\* flow, outside the middle of an edit (between the rollback and the
\* re-apply), the ledger entry of every roster id equals the sum over all
\* matches of all rounds of the points the match attributes to that id.
C1_LedgerConsistency == pc # "newcode" => LedgerConsistent(tournament)

\* C1: a result has been entered in score_round for a two-player match.
C1_ResultEntered ==
    /\ call.op = "score_round"
    /\ \E r \in 1..Len(tournament.rounds) :
         \E i \in 1..Len(tournament.rounds[r].matches) :
            /\ tournament.rounds[r].matches[i].player2 # NoPlayer
            /\ tournament.rounds[r].matches[i].result1 = "victoire"

\* C2: round count.  len(rounds) = current_round_number in every state,
\* whether the last call returned a round or raised an error, for rosters of
\* even and of odd size.
C2_RoundCount == Len(tournament.rounds) = tournament.current_round_number

\* C2: start_first_round has been called on a roster of odd size that passes
\* its guards.
C2_OddFirstRoundCalled ==
    /\ call.op = "start_first_round"
    /\ Len(tournament.players) = MaxPlayers
    /\ tournament.current_round_number = 1

\* The indices of the matches of rnd that have no player2.
ByeMatches(rnd) == { i \in 1..Len(rnd.matches) : rnd.matches[i].player2 = NoPlayer }

\* t1 is t0 with one round more; over an odd number of participants that
\* round has exactly one bye match (score1 1.0, score2 0.0, result1
\* "exempt") whose player has 1.0 more on the ledger than in t0; over an
\* even number it has no bye match.
RoundCreatedWithBye(t0, t1, odd) ==
    /\ Len(t1.rounds) = Len(t0.rounds) + 1
    /\ LET rnd == LastRound(t1)
       IN  IF odd
           THEN /\ Cardinality(ByeMatches(rnd)) = 1
                /\ \A i \in ByeMatches(rnd) :
                     /\ rnd.matches[i].score1 = 2
                     /\ rnd.matches[i].score2 = 0
                     /\ rnd.matches[i].result1 = "exempt"
                     /\ Get(t1.scores, rnd.matches[i].player1)
                          = Get(t0.scores, rnd.matches[i].player1) + 2
           ELSE ByeMatches(rnd) = {}

\* The guards of start_tiebreak_round reject leader_ids.
TiebreakGuardFails(t, leader_ids) ==
    LET ids_norm == IdsNorm(leader_ids, <<>>)
    IN  \/ Len(ids_norm) < 2
        \/ \E i \in 1..Len(ids_norm) : ~has_player(t, ids_norm[i])

\* The step is the call start_tiebreak_round(leader_ids) with shuffle k.
IsTiebreakCall(leader_ids, k) ==
    LET r == start_tiebreak_round(tournament, leader_ids, k)
    IN  /\ IsCall("start_tiebreak_round")
        /\ call'.exc = r.exc
        /\ tournament' = r.t

C3_Step ==
    /\ ( /\ IsCall("start_first_round")
         /\ tournament.current_round_number = 0
         /\ ~validate_roster_fails(tournament) )
       => RoundCreatedWithBye(tournament, tournament',
                              Len(tournament.players) % 2 = 1)
    /\ ( /\ IsCall("start_next_round")
         /\ tournament.current_round_number >= 1
         /\ tournament.current_round_number < tournament.number_rounds )
       => RoundCreatedWithBye(tournament, tournament',
                              Len(tournament.players) % 2 = 1)
    /\ \A leader_ids \in LeaderInputs(tournament), k \in ShuffleOutcomes :
         ( /\ ~TiebreakGuardFails(tournament, leader_ids)
           /\ IsTiebreakCall(leader_ids, k) )
         => RoundCreatedWithBye(tournament, tournament',
                                Len(IdsNorm(leader_ids, <<>>)) % 2 = 1)

\* C3: exempt bye.  A call of start_first_round, start_next_round or
\* start_tiebreak_round that passes its guards creates a round; over an odd
\* number of participants that round contains exactly one match with no
\* player2, score1 = 1.0, score2 = 0.0 and result1 = "exempt", and the bye
\* player's ledger entry is 1.0 higher than before the call; over an even
\* number of participants the round contains no such match.
C3_ExemptBye == [][C3_Step]_vars

\* C3: a round has been asked for over an odd number of participants.
C3_OddRoundAsked ==
    /\ call.op \in {"start_first_round", "start_next_round", "start_tiebreak_round"}
    /\ call.exc = "KeyError"
    /\ Len(tournament.players) % 2 = 1
    /\ Len(tournament.players) >= MinPlayers

\* The players of the two-player matches of rnd.
PairedPlayers(rnd) ==
    UNION { {rnd.matches[i].player1, rnd.matches[i].player2} :
              i \in { j \in 1..Len(rnd.matches) : rnd.matches[j].player2 # NoPlayer } }

\* The players of S can be paired off with no pair in pp.
RECURSIVE HasCleanPairing(_, _)
HasCleanPairing(S, pp) ==
    IF S = {} THEN TRUE
    ELSE LET a == CHOOSE x \in S : \A y \in S : x <= y
         IN  \E b \in S \ {a} : {a, b} \notin pp /\ HasCleanPairing(S \ {a, b}, pp)

\* The indices of the matches of rnd whose two players are a pair of pp.
Rematches(rnd, pp) ==
    { i \in 1..Len(rnd.matches) :
        /\ rnd.matches[i].player2 # NoPlayer
        /\ {rnd.matches[i].player1, rnd.matches[i].player2} \in pp }

C4_Step ==
    ( /\ IsCall("start_next_round")
      /\ call'.exc = "None"
      /\ HasCleanPairing(PairedPlayers(LastRound(tournament')), tournament.past_pairs) )
    => Rematches(LastRound(tournament'), tournament.past_pairs) = {}

\* C4: rematch avoidance.  When start_next_round creates a round and the
\* players it pairs can be paired off with no pair in past_pairs (as it was
\* before the call), no match of the new round pairs two players who have
\* already met.
C4_RematchAvoidance == [][C4_Step]_vars

\* C4: start_next_round has created a round on a roster that had met before.
C4_SecondRoundCreated ==
    /\ call.op = "start_next_round"
    /\ call.exc = "None"
    /\ Len(tournament.rounds) = 2
    /\ Cardinality(tournament.past_pairs) > Len(LastRound(tournament).matches)

C5_Step ==
    /\ (IsCall("add_player") /\ ~registration_open(tournament))
       => (call'.exc = "ValueError" /\ tournament' = tournament)
    /\ (IsCall("add_player") /\ call'.exc # "None")
       => tournament' = tournament
    /\ ( /\ IsCall("start_first_round")
         /\ \/ tournament.current_round_number # 0
            \/ Len(tournament.players) < MinPlayers
            \/ Cardinality(Range(tournament.players)) # Len(tournament.players) )
       => (call'.exc = "ValueError" /\ tournament' = tournament)
    /\ ( /\ IsCall("start_next_round")
         /\ \/ tournament.current_round_number = 0
            \/ tournament.current_round_number >= tournament.number_rounds )
       => (call'.exc = "ValueError" /\ tournament' = tournament)
    /\ (IsCall("start_tiebreak_round") /\ call'.exc # "None")
       => \A leader_ids \in LeaderInputs(tournament) :
            TiebreakGuardFails(tournament, leader_ids)
            => \A k \in ShuffleOutcomes :
                 IsTiebreakCall(leader_ids, k)
                 => (call'.exc \in {"ValueError", "KeyError"} /\ tournament' = tournament)
    /\ (IsCall("start_tiebreak_round") /\ call'.exc = "None")
       => \A leader_ids \in LeaderInputs(tournament) :
            TiebreakGuardFails(tournament, leader_ids)
            => \A k \in ShuffleOutcomes : ~IsTiebreakCall(leader_ids, k)

\* C5: guard violations.  A call of add_player with registration closed or
\* a duplicate id, of start_first_round on a started tournament, a roster
\* of fewer than 8 or with duplicate ids, of start_next_round before the
\* start or with number_rounds reached, or of start_tiebreak_round with
\* fewer than two distinct leaders or a leader not on the roster, raises an
\* error and leaves every field of the tournament as it was.
C5_GuardViolationNoChange == [][C5_Step]_vars

\* C5: on a started tournament of 8 players, start_tiebreak_round has been
\* refused for a leader that is not on the roster.
C5_UnknownLeaderRefused ==
    /\ call.op = "start_tiebreak_round"
    /\ call.exc = "KeyError"
    /\ Len(tournament.players) = MinPlayers
    /\ tournament.current_round_number >= 1
    /\ Len(tournament.rounds) = tournament.current_round_number

C6_Step ==
    (IsCall("start_first_round") /\ call'.exc = "None")
    => /\ tournament.current_round_number = 0
       /\ Len(tournament.players) >= MinPlayers
       /\ Cardinality(Range(tournament.players)) = Len(tournament.players)
       /\ tournament'.current_round_number = 1
       /\ tournament'.started_at =
            (IF tournament.started_at = "" THEN "now" ELSE tournament.started_at)
       /\ tournament'.start_date =
            (IF tournament.start_date = "" THEN "today" ELSE tournament.start_date)
       /\ Len(tournament'.rounds) = Len(tournament.rounds) + 1
       /\ SubSeq(tournament'.rounds, 1, Len(tournament.rounds)) = tournament.rounds
       /\ LastRound(tournament').round_number = 1

\* C6: start_first_round.  It returns a round only from a state with
\* current_round_number = 0, at least 8 roster players and pairwise
\* distinct ids; then current_round_number is 1, started_at and start_date
\* are set if they were empty and are as they were otherwise, and exactly
\* one round, of round_number 1, has been appended to rounds.
C6_StartFirstRound == [][C6_Step]_vars

\* C6: start_first_round has returned a round on a tournament constructed
\* with a start date.
C6_FirstRoundWithPresetDate ==
    /\ call.op = "start_first_round"
    /\ call.exc = "None"
    /\ tournament.start_date = "preset"
    /\ tournament.started_at = "now"
    /\ Len(tournament.rounds) = 1

C7_Step ==
    IsCall("start_next_round")
    => /\ (call'.exc = "None") <=>
            ( /\ 1 <= tournament.current_round_number
              /\ tournament.current_round_number < tournament.number_rounds )
       /\ (call'.exc = "None")
          => /\ tournament'.current_round_number = tournament.current_round_number + 1
             /\ tournament'.current_round_number <= tournament.number_rounds
             /\ Len(tournament'.rounds) = Len(tournament.rounds) + 1
             /\ SubSeq(tournament'.rounds, 1, Len(tournament.rounds)) = tournament.rounds

\* C7: start_next_round.  It returns a round exactly when
\* 1 <= current_round_number < number_rounds; then current_round_number has
\* increased by exactly 1, without passing number_rounds, and exactly one
\* round has been appended.
C7_StartNextRound == [][C7_Step]_vars

\* C7: start_next_round has been called with
\* 1 <= current_round_number < number_rounds on a roster of odd size.
C7_NextRoundOnOddRoster ==
    /\ call.op = "start_next_round"
    /\ call.exc = "KeyError"
    /\ Len(tournament.players) % 2 = 1

C8_Step ==
    (tournament.finished_at = "" /\ tournament'.finished_at # "")
    => /\ ~have_first_place_tie(tournament')
       /\ tournament'.winner_id # NoPlayer
       /\ tournament'.winner_id = compute_winner_id(tournament')

\* C8: finalization.  In the orchestrated flow the tournament is marked
\* finished only in a state with no tie for first place, and winner_id is
\* then compute_winner_id(): the one roster id whose ledger score is the
\* maximum.
C8_FinishedWithoutTie == [][C8_Step]_vars

\* C8: run_rounds_until_done has marked the tournament finished.
C8_Finalized ==
    /\ tournament.finished_at # ""
    /\ Len(tournament.rounds) >= tournament.number_rounds

C9_Step ==
    tournament.current_round_number >= tournament.number_rounds
    => tournament'.past_pairs = tournament.past_pairs

\* C9: tiebreak rounds and past_pairs.  Once the scheduled rounds have all
\* been created, no step (creating a tiebreak round, scoring it, resuming,
\* finalizing) changes past_pairs; a tiebreak round may pair two players
\* who are already a pair of past_pairs.
C9_TiebreakKeepsPastPairs == [][C9_Step]_vars

\* C9: a tiebreak round that pairs two players of past_pairs has been
\* created, scored and confirmed.
C9_TiebreakRematchScored ==
    /\ Len(tournament.rounds) > tournament.number_rounds
    /\ Rematches(LastRound(tournament), tournament.past_pairs) # {}
    /\ PendingOf(LastRound(tournament)) = {}
    /\ call = Call("score_round", "None", "True")

\* Every two-player match of rnd has a winner.
AllDecisive(rnd) ==
    \A i \in 1..Len(rnd.matches) :
        rnd.matches[i].player2 # NoPlayer
        => rnd.matches[i].result1 \in {"victoire", "defaite"}

\* C10: tiebreak termination, as the progress each turn of the loop makes.
\* When the loop tests have_first_place_tie() after a tiebreak round whose
\* matches all have a winner, fewer players lead than took part in that
\* round (so that, decisive results given, the loop comes to one leader).
C10_TiebreakShrinksLeaders ==
    ( /\ flow = "loop3"
      /\ Len(tournament.rounds) > tournament.number_rounds
      /\ AllDecisive(LastRound(tournament)) )
    => Len(tied_leaders(tournament))
         < Cardinality(PairedPlayers(LastRound(tournament)))
             + Cardinality(ByeMatches(LastRound(tournament)))

\* C10: the loop is back at its test after a tiebreak round scored with
\* decisive results and confirmed.
C10_TiebreakRoundScored ==
    /\ flow = "loop3"
    /\ Len(tournament.rounds) > tournament.number_rounds
    /\ AllDecisive(LastRound(tournament))
    /\ call = Call("score_round", "None", "True")

\* ----------------------------------------------------------------- C14
\* The step that is a call of save_tournament (its list update).
IsSaveStep == IsCall("save_tournament") /\ ~store.writing /\ store'.writing

\* The indexes of the stored records whose name, trimmed and lower-cased,
\* is the key.
SameKey(tournaments, key) ==
    { i \in 1..Len(tournaments) : NormalizeName(tournaments[i].name) = key }

C14_Step ==
    IsSaveStep =>
      LET rec == call'.arg
          old == store.tournaments
          new == store'.tournaments
          key == NormalizeName(rec.name)
          M   == SameKey(old, key)
      IN  key # 0 =>
            /\ IF M # {}
               THEN /\ Len(new) = Len(old)
                    /\ \E i \in M :
                         /\ new[i] = rec
                         /\ \A j \in 1..Len(old) : j # i => new[j] = old[j]
               ELSE new = Append(old, rec)
            /\ \A form \in {"plain", "upper", "padded"} :
                 get_tournament_by_name(store', Name(key, form)) = rec

\* C14: save_tournament of a record whose name is not empty replaces, at
\* the same index, the stored record whose name is equal after trimming
\* and lower-casing, leaves the other records and the order unchanged, and
\* appends when there is none; get_tournament_by_name then returns the
\* record just saved, however the name is cased or padded.
C14_UpsertByName == [][C14_Step]_vars

\* A record was replaced in place, at the first index of a list of three,
\* by a record whose name is written in another case than the stored one
\* was looked up with.
C14_ReplacedInPlace ==
    /\ call.op = "save_tournament"
    /\ ~store.writing
    /\ Len(store.tournaments) = 3
    /\ store.tournaments[1] = call.arg
    /\ call.arg.name.form = "upper"
    /\ call.arg.data = 2

\* ----------------------------------------------------------------- C15
\* The step that saves again the record the call before it saved.
IsSecondSave == IsSaveStep /\ call'.again

C15_NamedStep ==
    (IsSecondSave /\ NormalizeName(call'.arg.name) # 0) =>
      /\ store'.tournaments = store.tournaments
      /\ Persist(store').file = store.file

\* C15 (amended): saving the same record twice in succession yields the
\* same stored sequence as saving it once, for every store and every
\* record whose name is not empty after trimming.
C15_IdempotentForNamed == [][C15_NamedStep]_vars

C15_AnyStep ==
    IsSecondSave =>
      /\ store'.tournaments = store.tournaments
      /\ Persist(store').file = store.file

\* C15 as stated: the same, for every record.
C15_Idempotent == [][C15_AnyStep]_vars

\* A named record has been saved twice in succession into a store that
\* holds another record too.
C15_NamedSavedTwice ==
    /\ call.op = "save_tournament"
    /\ call.again
    /\ ~store.writing
    /\ NormalizeName(call.arg.name) # 0
    /\ Len(store.tournaments) = 2
    /\ store.tournaments[2] = call.arg
    /\ store.file = FileOf(store.tournaments)

\* ----------------------------------------------------------------- C16
\* What a reader of the tournaments file gets at this moment.
ReaderSees == store.file

\* C16: at every moment, a rewrite in progress and a process stopped in
\* mid-rewrite included, a reader of the file gets a complete sequence of
\* records, the one a completed save_tournament left, never an empty or
\* truncated file.
C16_ReaderSeesCompletedSave ==
    /\ ReaderSees.state = "complete"
    /\ ~store.writing => ReaderSees.records = store.tournaments

\* ----------------------------------------------------------------- C20
\* The label and the points of player1 the documentation of
\* set_result_by_code gives each code (points in half points).
DocumentedLabel == [V |-> "victoire", D |-> "defaite", N |-> "nul", E |-> "exempt"]

DocumentedPoints == [V |-> 2, D |-> 0, N |-> 1, E |-> 2]

C20_Step ==
    IsCall("set_result_by_code") =>
      LET code == NormalizeCode(call'.arg)
      IN  IF code \in DOMAIN DocumentedLabel
          THEN /\ call'.exc = "None"
               /\ match'.result1 = DocumentedLabel[code]
               /\ match'.score1 = DocumentedPoints[code]
          ELSE /\ call'.exc = "ValueError"
               /\ match' = match

\* C20: set_result_by_code trims and upper-cases its code and accepts
\* exactly V, D, N and E, giving player1 the label victoire, defaite, nul,
\* exempt and 1.0, 0.0, 0.5, 1.0 points; every other code is rejected with
\* the invalid-code error and leaves the scores and labels unchanged.
C20_ResultCodes == [][C20_Step]_vars

\* ----------------------------------------------------------------- C19
\* The ids of the roster.
RosterIds(t) == Range(t.players)

C19_State ==
    /\ registration_open(tournament) <=> tournament.current_round_number = 0
    /\ DOMAIN tournament.scores \subseteq RosterIds(tournament)
    /\ \A pr \in tournament.past_pairs :
         /\ Cardinality(pr) = 2
         /\ pr \subseteq RosterIds(tournament)

C19_Step ==
    /\ (IsCall("add_player") /\ call'.exc = "None") =>
         /\ tournament.current_round_number = 0
         /\ tournament'.players # tournament.players
    /\ tournament.current_round_number # 0 =>
         tournament'.players = tournament.players

\* C19: registration_open holds exactly when current_round_number is 0,
\* add_player succeeds only then and the roster does not change once a
\* round was started; every key of scores is the id of a roster player and
\* every element of past_pairs is a set of two distinct roster ids.
C19_RegistrationAndLedgerKeys == []C19_State /\ [][C19_Step]_vars

\* add_player was refused on a launched tournament that has recorded pairs
\* and scores.
C19_LateAddRefused ==
    /\ call.op = "add_player"
    /\ call.exc = "ValueError"
    /\ tournament.current_round_number >= 2
    /\ Cardinality(tournament.past_pairs) >= 5
    /\ DOMAIN tournament.scores = RosterIds(tournament)

\* ----------------------------------------------------------------- C12
\* C12: Tournament.from_dict(t.to_dict()) raises nothing and equals t on
\* every attribute: location, dates, timestamps, description,
\* number_rounds, current_round_number, players, rounds with their matches
\* and results, scores, past_pairs, repo_name and winner_id.
C12_RoundTrip == FromDict(ToDict(tournament)) = [ t |-> tournament, exc |-> "None" ]

\* ----------------------------------------------------------------- C11
\* The record a new TournamentRepository on the same file returns for the
\* name the tournament is saved with.
ReloadedRecord ==
    get_tournament_by_name(NewRepository(store.file), ToDict(tournament).name)

\* The indexes of the matches of a round that have no result.
Unscored(rnd) == { i \in 1..Len(rnd.matches) : ~HasResult(rnd.matches[i]) }

\* C11: in every state saved with save_tournament(model.to_dict()), a
\* partly scored last round included, a new repository on the same file,
\* get_tournament_by_name and Tournament.from_dict give a tournament with
\* the same scores, past_pairs, current_round_number and rounds, match
\* results included, and resumed scoring asks for exactly the matches that
\* have no result.
C11_ResumeRestores ==
    (tournament.rounds # <<>> /\ ReloadedRecord = ToDict(tournament)) =>
      LET r == FromDict(ReloadedRecord)
      IN  /\ r.exc = "None"
          /\ r.t.scores = tournament.scores
          /\ r.t.past_pairs = tournament.past_pairs
          /\ r.t.current_round_number = tournament.current_round_number
          /\ r.t.rounds = tournament.rounds
          /\ PendingOf(LastRound(r.t)) = Unscored(LastRound(tournament))

\* ----------------------------------------------------------------- C13
\* The keys Tournament.to_dict defines.
EngineKeys == DOMAIN ToDict(NewTournament("", 1))

C13_Step ==
    store' # store =>
      \A i \in 1..Len(store.tournaments) :
        \A k \in (DOMAIN store.tournaments[i]) \ EngineKeys :
          /\ i <= Len(store'.tournaments)
          /\ k \in DOMAIN store'.tournaments[i]
          /\ store'.tournaments[i][k] = store.tournaments[i][k]

\* C13: the keys of a stored record that the engine does not define
\* (created_at is one) are still in the record, with the same values, after
\* the record was loaded, changed by the engine and saved with
\* save_tournament(model.to_dict()).
C13_ForeignKeysKept == [][C13_Step]_vars

\* ----------------------------------------------------------------- C17
\* The result labels of every match of every round.
Results(rounds) ==
    [ r \in 1..Len(rounds) |->
        [ i \in 1..Len(rounds[r].matches) |->
            <<rounds[r].matches[i].result1, rounds[r].matches[i].result2>> ] ]

\* A step that creates a round or enters or edits a result.
Mutates == Results(tournament'.rounds) # Results(tournament.rounds)

C17_Step ==
    (Mutates /\ tournament.rounds # <<>>) =>
      LET rec == StoredRecord(store, tournament)
      IN  /\ "rounds" \in DOMAIN rec
          /\ Results(rec.rounds) = Results(tournament.rounds)

\* C17: every mutating step of the flow (a round created by
\* start_first_round, start_next_round or start_tiebreak_round, a result
\* entered or edited) is followed by a save_tournament of the full snapshot
\* before the next mutating step begins: when a mutating step begins, the
\* stored record has the rounds and results the steps before it made.
C17_SavedBeforeNextMutation == [][C17_Step]_vars

\* ----------------------------------------------------------------- C18
\* The file holds what the repository holds: the last save succeeded.
FileInSync(st) == st.file = FileOf(st.tournaments)

C18_Step ==
    /\ flow' # "crashed"
    /\ (store' # store /\ ~FileInSync(store')) => flow' \in {"loop2", "loop3", "menu"}
    /\ (store' # store /\ FileInSync(store')) =>
         LoadRaw(store'.file)[1] = ToDict(tournament')

\* C18: a save that fails during the orchestration (right after launch,
\* after a confirmed round, at finalization) is never fatal: the flow goes
\* on with the tournament in memory, and the next save that succeeds
\* persists the complete current state.
C18_SaveFailureNotFatal == [][C18_Step]_vars

\* ----------------------------------------------------------------- C21
\* A two-player match is unscored, or holds one of the three results with
\* its symmetric labels (scores in half points).
MatchWellFormed(m) ==
    \/ /\ m.score1 = 0 /\ m.score2 = 0
       /\ m.result1 = "None" /\ m.result2 = "None"
    \/ /\ <<m.score1, m.score2>> = <<2, 0>>
       /\ <<m.result1, m.result2>> = <<"victoire", "defaite">>
    \/ /\ <<m.score1, m.score2>> = <<0, 2>>
       /\ <<m.result1, m.result2>> = <<"defaite", "victoire">>
    \/ /\ <<m.score1, m.score2>> = <<1, 1>>
       /\ <<m.result1, m.result2>> = <<"nul", "nul">>

\* C21: after any sequence of set_result_by_code and play_match calls,
\* accepted or rejected, a match of two players is unscored (0.0/0.0, no
\* labels) or has scores (1,0), (0,1) or (0.5,0.5) with the matching
\* symmetric labels, so that the scores of a scored match sum to 1.0.
C21_MatchScoresAndLabels ==
    /\ MatchWellFormed(match)
    /\ match.result1 # "None" => match.score1 + match.score2 = 2

\* A scored match has just refused scores that are numbers but no result.
C21_RejectedAfterScored ==
    /\ call.op = "play_match"
    /\ call.exc = "ValueError"
    /\ call.arg[1].kind = "number" /\ call.arg[2].kind = "number"
    /\ match.result1 = "nul"

\* ----------------------------------------------------------------- C22
C22_Step ==
    IsCall("from_dict") =>
      LET data == call'.arg[1]
          player_lookup == call'.arg[2]
      IN  /\ ( \/ data.player1 \notin player_lookup
               \/ data.player2 # NoPlayer /\ data.player2 \notin player_lookup )
             => call'.exc = "KeyError" /\ call'.ret = "player1"
          /\ call'.exc = "None"
             => /\ match'.player1 = data.player1
                /\ match'.player2 = data.player2

\* C22: Match.from_dict fails with the error of an unknown player whenever
\* the stored player1 id, or a stored player2 id that is not null, is not
\* in the player lookup; when it succeeds the match has the stored player
\* ids, player2 absent exactly when the stored player2 is null.
C22_UnknownPlayerRejected == [][C22_Step]_vars

Won(dir, id) ==
    SumSeq([ i \in 1..Len(dir) |->
               IF dir[i].national_id = id THEN dir[i].tournaments_won ELSE 0 ])

IsFinalizeStep == flow = "finish" /\ pc = "idle" /\ IsFinished(tournament')

C24_Step ==
    (IsFinalizeStep /\ compute_winner_id(tournament) # NoPlayer)
        => \A id \in 1..MinPlayers :
             Won(directory', id) =
               Won(directory, id) + IF id = compute_winner_id(tournament) THEN 1 ELSE 0

C24_WinnerCountedOnce == [][C24_Step]_vars

\* A tournament finalized with a unique winner.
C24_FinalizedWithWinner ==
    IsFinished(tournament) /\ tournament.winner_id # NoPlayer

\* ---------------------------------------------------------------------
\* C25: the progress of a stored tournament is 0 when it has not started,
\* 100 when it is finished, and otherwise the rounded share of closed
\* rounds in number_rounds, a round being closed only if it has an
\* end_time or every match with two players has a result.
RoundScored(r) ==
    \/ r.end_time # ""
    \/ \A i \in 1..Len(r.matches) :
         r.matches[i].player2 = NoPlayer \/ r.matches[i].result1 \notin {"None", ""}

DocumentedProgress(data) ==
    IF RecordIsFinished(data) THEN 100
    ELSE IF ~RecordIsStarted(data) THEN 0
    ELSE Clamp(RoundPercent(
             Cardinality({ i \in 1..Len(data.rounds) : RoundScored(data.rounds[i]) }),
             data.number_rounds))

C25_ProgressCountsClosedRounds ==
    \A i \in 1..Len(store.tournaments) :
       tournament_progress_percent(store.tournaments[i])
         = DocumentedProgress(store.tournaments[i])

\* ---------------------------------------------------------------------
\* C26: for a tournament of four planned rounds the progress is one of 0,
\* 25, 50, 75 and 100, whatever the numbers of created and closed rounds.
ClosedRounds(data) ==
    Cardinality({ i \in 1..Len(data.rounds) : RoundCountsClosed(data.rounds[i]) })

C26_FourRoundsProgress ==
    (call.op = "progress" /\ call.arg.number_rounds = 4)
        => call.ret \in { 0, 25, 50, 75, 100 }

\* The progress of an unfinished record of four planned rounds with more
\* than four closed rounds and one that is not closed.
C26_BeyondFourthRound ==
    /\ call.op = "progress" /\ call.arg.number_rounds = 4
    /\ call.arg.finished_at = ""
    /\ ClosedRounds(call.arg) > 4
    /\ ClosedRounds(call.arg) < Len(call.arg.rounds)
    /\ call.ret = 100

\* ---------------------------------------------------------------------
\* C27: the generated name carries 1 + the largest number of the existing
\* names of the form tournament_<number>_ (1 if there is none), and its
\* repository key is the key of no existing record: saving the new
\* tournament adds a record and replaces none.
KeysOf(st) == { NormalizeName(st.tournaments[i].name) : i \in 1..Len(st.tournaments) }

IsCreateStep == call'.op = "generate_tournament_name" /\ store' # store

C27_Step ==
    IsCreateStep =>
       /\ NormalizeName(call'.ret) \notin KeysOf(store)
       /\ Len(store'.tournaments) = Len(store.tournaments) + 1
       /\ \A i \in 1..Len(store.tournaments) : store'.tournaments[i] = store.tournaments[i]

C27_GeneratedNameIsNew == [][C27_Step]_vars

\* ---------------------------------------------------------------------
\* C28: no two stored players have the same national id, and adding a
\* player with valid fields whose id (in upper case) is the id of a stored
\* player is rejected with the message that the id is used and leaves the
\* players file unchanged.
IdUsed(file, raw) ==
    is_valid_id(raw) /\ \E i \in 1..Len(file) : file[i].national_id = NormalizeId(raw)

IsUsedIdAdded ==
    /\ call'.op = "add_new_player"
    /\ call'.arg[1] = "ok" /\ call'.arg[2] = "ok"
    /\ IdUsed(directory, call'.arg[3])

C28_Step ==
    /\ \A i, j \in 1..Len(directory') :
         i # j => directory'[i].national_id # directory'[j].national_id
    /\ IsUsedIdAdded =>
         (call'.exc = "None" /\ call'.ret = "deja utilise" /\ directory' = directory)

C28_UsedIdRejected == [][C28_Step]_vars

\* ---------------------------------------------------------------------
\* C29: mark_finished writes end_date and finished_at only where they are
\* empty, so a second call changes neither; once finished_at is set no
\* engine operation changes it and the status stays the finished one.
C29_Step ==
    /\ IsCall("mark_finished") =>
         /\ tournament'.finished_at # ""
         /\ tournament'.end_date # ""
         /\ tournament.end_date # "" => tournament'.end_date = tournament.end_date
    /\ tournament.finished_at # "" =>
         /\ tournament'.finished_at = tournament.finished_at
         /\ tournament'.end_date = tournament.end_date
         /\ status(tournament') = "Termine"

C29_FinishedStaysFinished == [][C29_Step]_vars

\* A tournament with a round, marked finished at a later instant than the
\* one it was first marked finished at.
C29_MarkedTwice ==
    /\ call.op = "mark_finished" /\ call.arg = "later"
    /\ tournament.finished_at = "now" /\ tournament.end_date = "today"
    /\ Len(tournament.rounds) > 0

\* ---------------------------------------------------------------------
\* C30: a call of start_first_round or start_next_round that passes its
\* guards creates a round in which each player of the roster is in exactly
\* one match (as player1, as player2 or as the bye player), so that n
\* players give a round of ceil(n/2) matches.
Appearances(rnd, id) ==
    Cardinality({ i \in 1..Len(rnd.matches) : rnd.matches[i].player1 = id })
      + Cardinality({ i \in 1..Len(rnd.matches) : rnd.matches[i].player2 = id })

EachPlayerOnce(t0, t1) ==
    /\ Len(t1.rounds) = Len(t0.rounds) + 1
    /\ \A i \in 1..Len(t1.players) : Appearances(LastRound(t1), t1.players[i]) = 1
    /\ Len(LastRound(t1).matches) = (Len(t1.players) + 1) \div 2

IsRoundAsked ==
    \/ /\ IsCall("start_first_round")
       /\ tournament.current_round_number = 0
       /\ ~validate_roster_fails(tournament)
    \/ /\ IsCall("start_next_round")
       /\ tournament.current_round_number >= 1
       /\ tournament.current_round_number < tournament.number_rounds

C30_Step == IsRoundAsked => EachPlayerOnce(tournament, tournament')

C30_EachPlayerInOneMatch == [][C30_Step]_vars

\* ---------------------------------------------------------------------
\* C31: in the round start_next_round creates, the partner of each player1
\* is the first player after it in the score-sorted list who is in no
\* earlier match of the round and has not met it, when there is one; a
\* pair of past_pairs is created only when there is none.
UsedBefore(rnd, k) ==
    UNION { {rnd.matches[j].player1, rnd.matches[j].player2} : j \in 1..(k - 1) }

CleanSuccessors(sorted_ids, rnd, k, pp) ==
    { i \in 1..Len(sorted_ids) :
        /\ i > IndexOf(sorted_ids, rnd.matches[k].player1)
        /\ sorted_ids[i] \notin UsedBefore(rnd, k)
        /\ {rnd.matches[k].player1, sorted_ids[i]} \notin pp }

GreedyPairing(sorted_ids, rnd, pp) ==
    \A k \in 1..Len(rnd.matches) :
       rnd.matches[k].player2 # NoPlayer =>
         LET clean == CleanSuccessors(sorted_ids, rnd, k, pp)
         IN  /\ clean # {} =>
                  rnd.matches[k].player2
                    = sorted_ids[CHOOSE i \in clean : \A j \in clean : i <= j]
             /\ {rnd.matches[k].player1, rnd.matches[k].player2} \in pp => clean = {}

C31_Step ==
    \A ks \in [ 1..Cardinality(ScoreValues(tournament)) -> ShuffleOutcomes ] :
       ( /\ IsCall("start_next_round")
         /\ call'.exc = "None"
         /\ tournament' = start_next_round(tournament, ks).t )
       => GreedyPairing(
              sorted_player_ids_by_score(
                  [tournament EXCEPT !.current_round_number = @ + 1], ks),
              LastRound(tournament'), tournament.past_pairs)

C31_RematchOnlyWithoutCleanSuccessor == [][C31_Step]_vars

\* start_next_round has created a round with a pair that had met and a
\* pair that had not.
C31_RematchCreated ==
    /\ call.op = "start_next_round" /\ call.exc = "None"
    /\ Len(tournament.rounds) = 2
    /\ LET rnd == LastRound(tournament)
           met == { {tournament.rounds[1].matches[i].player1,
                     tournament.rounds[1].matches[i].player2} :
                      i \in 1..Len(tournament.rounds[1].matches) }
       IN  /\ \E k \in 1..Len(rnd.matches) :
                {rnd.matches[k].player1, rnd.matches[k].player2} \in met
           /\ \E k \in 1..Len(rnd.matches) :
                {rnd.matches[k].player1, rnd.matches[k].player2} \notin met

\* ---------------------------------------------------------------------
\* C32: past_pairs is the set of the pairs of the two-player matches of
\* the rounds start_first_round and start_next_round created: a step adds
\* to it the pairs of the round it appends when it is one of these two
\* calls, and no step changes it otherwise.
PairsOf(rnd) ==
    { {rnd.matches[i].player1, rnd.matches[i].player2} :
        i \in { j \in 1..Len(rnd.matches) : rnd.matches[j].player2 # NoPlayer } }

C32_Step ==
    tournament'.past_pairs =
      IF /\ IsCall("start_first_round") \/ IsCall("start_next_round")
         /\ Len(tournament'.rounds) = Len(tournament.rounds) + 1
      THEN tournament.past_pairs \cup PairsOf(LastRound(tournament'))
      ELSE tournament.past_pairs

C32_PastPairsAreCreatedPairs == [][C32_Step]_vars

\* ---------------------------------------------------------------------
\* C33: a first round asked for over a roster that passes the guards is
\* created with each player of the roster in one match, and a call of
\* update_scores_from_round on it, once it is fully scored, leaves each
\* player of the roster with the points of its one match on the ledger,
\* the bye player with 1.0.
RoundPoints(rnd, id) ==
    SumSeq([ i \in 1..Len(rnd.matches) |->
               IF rnd.matches[i].player1 = id THEN rnd.matches[i].score1
               ELSE IF rnd.matches[i].player2 = id THEN rnd.matches[i].score2
               ELSE 0 ])

C33_Step ==
    /\ ( /\ IsCall("start_first_round")
         /\ tournament.current_round_number = 0
         /\ ~validate_roster_fails(tournament) )
       => /\ Len(tournament'.rounds) = 1
          /\ \A i \in 1..Len(tournament.players) :
               Appearances(tournament'.rounds[1], tournament.players[i]) = 1
    /\ IsCall("update_scores_from_round")
       => \A i \in 1..Len(tournament.players) :
            Get(tournament'.scores, tournament.players[i])
              = RoundPoints(tournament.rounds[1], tournament.players[i])

C33_EachMatchCountedOnce == [][C33_Step]_vars

\* ---------------------------------------------------------------------
\* C34: an edit of a scored match in score_round takes the old points of
\* its two players off the ledger when the match is picked and puts the
\* points of the result the edit ends with (the new one, or the old one
\* when the edit is cancelled) on it, and changes no other entry.
MatchPoints(m, id) ==
    IF m.player1 = id THEN m.score1 ELSE IF m.player2 = id THEN m.score2 ELSE 0

C34_Step ==
    /\ (pc = "confirm" /\ pc' = "newcode")
       => \A id \in Ids :
            Get(tournament'.scores, id)
              = Get(tournament.scores, id)
                  - MatchPoints(tournament.rounds[cur].matches[editidx'], id)
    /\ (pc = "newcode" /\ pc' # "newcode")
       => \A id \in Ids :
            Get(tournament'.scores, id)
              = Get(tournament.scores, id)
                  + MatchPoints(tournament'.rounds[cur].matches[editidx], id)

C34_EditChangesLedgerByDifference == [][C34_Step]_vars

\* ---------------------------------------------------------------------
\* C35: a call of start_tiebreak_round(leader_ids) that passes its guards
\* appends a round whose players are exactly the distinct normalised
\* leader ids, each in exactly one match, one of them as a bye when their
\* number is odd, and raises current_round_number by one, past
\* number_rounds when it has to.
RoundPlayers(rnd) ==
    UNION { {rnd.matches[i].player1, rnd.matches[i].player2} : i \in 1..Len(rnd.matches) }
      \ {NoPlayer}

TiebreakRoundOf(t0, t1, ids_norm) ==
    /\ Len(t1.rounds) = Len(t0.rounds) + 1
    /\ t1.current_round_number = t0.current_round_number + 1
    /\ RoundPlayers(LastRound(t1)) = Range(ids_norm)
    /\ \A id \in Range(ids_norm) : Appearances(LastRound(t1), id) = 1
    /\ Cardinality(ByeMatches(LastRound(t1))) = Len(ids_norm) % 2

C35_Step ==
    \A leader_ids \in LeaderInputs(tournament), k \in ShuffleOutcomes :
       ( /\ ~TiebreakGuardFails(tournament, leader_ids)
         /\ IsTiebreakCall(leader_ids, k) )
       => TiebreakRoundOf(tournament, tournament', IdsNorm(leader_ids, <<>>))

C35_TiebreakRoundOfLeaders == [][C35_Step]_vars

\* ---------------------------------------------------------------------
\* C36: a call of start_next_round over a roster of odd size that passes
\* its guards appends a round with one bye match, and the bye player's
\* ledger entry before the call is the minimum over the roster.
HasMinimumScore(t, id) ==
    \A i \in 1..Len(t.players) : Get(t.scores, id) <= Get(t.scores, t.players[i])

C36_Step ==
    ( /\ IsCall("start_next_round")
      /\ tournament.current_round_number >= 1
      /\ tournament.current_round_number < tournament.number_rounds
      /\ Len(tournament.players) % 2 = 1 )
    => /\ Len(tournament'.rounds) = Len(tournament.rounds) + 1
       /\ Cardinality(ByeMatches(LastRound(tournament'))) = 1
       /\ \A i \in ByeMatches(LastRound(tournament')) :
            HasMinimumScore(tournament, LastRound(tournament').matches[i].player1)

C36_ByeToLowestScore == [][C36_Step]_vars

\* Every two-player match of the round is a draw.
AllDraws(rnd) ==
    \A i \in 1..Len(rnd.matches) :
        rnd.matches[i].player2 # NoPlayer => rnd.matches[i].result1 = "nul"

\* C37: when the loop tests have_first_place_tie() after a tiebreak round
\* among the leaders L was fully scored and confirmed, the leaders are all
\* in L, and they are fewer than L unless L has an even size and every
\* match of the round was a draw.
C37_TiebreakNarrowsLeaders ==
    ( /\ flow = "loop3"
      /\ Len(tournament.rounds) > tournament.number_rounds
      /\ call = Call("score_round", "None", "True")
      /\ \A i \in 1..Len(LastRound(tournament).matches) :
             HasResult(LastRound(tournament).matches[i]) )
    => LET L == RoundPlayers(LastRound(tournament))
           leaders == Range(tied_leaders(tournament))
       IN  /\ leaders \subseteq L
           /\ leaders = L => ( Cardinality(L) % 2 = 0 /\ AllDraws(LastRound(tournament)) )

\* Every match of every round of t has a result.
AllRoundsScored(t) ==
    \A r \in 1..Len(t.rounds) :
        \A i \in 1..Len(t.rounds[r].matches) : HasResult(t.rounds[r].matches[i])

\* A step of the flow in which start_next_round or start_tiebreak_round is
\* called: a round is added after the first one, or the call fails.
RoundAskedInFlow ==
    \/ /\ Len(tournament.rounds) >= 1
       /\ Len(tournament'.rounds) = Len(tournament.rounds) + 1
    \/ /\ call' # call
       /\ call'.op \in {"start_next_round", "start_tiebreak_round"}

\* score_round returned True ("Confirmer le round") on the latest round and
\* nothing happened since but, before a tiebreak round, a start_next_round
\* that failed.
LatestRoundConfirmed ==
    \/ call = Call("score_round", "None", "True")
    \/ /\ flow = "loop3"
       /\ call.op = "start_next_round"
       /\ call.exc # "None"

C38_Step ==
    RoundAskedInFlow
    => /\ flow \in {"loop2", "loop3"}
       /\ AllRoundsScored(tournament)
       /\ LatestRoundConfirmed

\* C38: in run_rounds_until_done, after a launch and after a resume,
\* start_next_round and start_tiebreak_round are called only when every
\* match of the latest round has a result and score_round returned True on
\* it; no round is created while a match of an earlier round has no result.
C38_RoundsCreatedAfterConfirmation == [][C38_Step]_vars

\* C38: start_next_round has created round 2 (or a later one) in the loop
\* of the scheduled rounds, and score_round is entered on it.
C38_NextRoundCreated ==
    /\ flow = "step2"
    /\ Len(tournament.rounds) >= 2
    /\ pending = 1..Len(LastRound(tournament).matches)
    /\ AllRoundsScored([tournament EXCEPT !.rounds = SubSeq(@, 1, Len(@) - 1)])

\* The roster, the rounds, the ledger, the pairs met and the round counter.
EngineState(t) ==
    << t.players, t.rounds, t.scores, t.past_pairs, t.current_round_number >>

C39_Step ==
    ( /\ tournament.finished_at # ""
      /\ \/ IsCall("add_player")
         \/ IsCall("start_next_round")
         \/ IsCall("start_tiebreak_round") )
    => /\ call'.exc # "None"
       /\ EngineState(tournament') = EngineState(tournament)

\* C39: once finished_at is set, add_player, start_next_round and
\* start_tiebreak_round are rejected and leave the roster, the rounds, the
\* scores, past_pairs and current_round_number as they were.
C39_FinishedIsFrozen == [][C39_Step]_vars

\* C40: in a store filled from empty by save_tournament and add_tournament,
\* no two records have the same non-empty normalised name, and the number of
\* records is the number of distinct non-empty normalised names saved plus
\* the number of saves made with an empty name.
C40_OneRecordPerName ==
    /\ \A i \in 1..Len(store.tournaments) :
         \A j \in 1..Len(store.tournaments) :
           ( /\ i # j
             /\ NormalizeName(store.tournaments[i].name) # 0 )
           => NormalizeName(store.tournaments[i].name)
                # NormalizeName(store.tournaments[j].name)
    /\ Len(store.tournaments) = Cardinality(pending) + cur
    /\ store.file = FileOf(store.tournaments)

\* C40: a record with a name has just been stored over the record of the
\* same normalised name, the first of the store, after two records with an
\* empty name were appended behind it.
C40_SavedOverAndAppended ==
    /\ call.op \in {"save_tournament", "add_tournament"}
    /\ NormalizeName(call.arg.name) # 0
    /\ call.arg.name.form = "upper"
    /\ Len(store.tournaments) = 3
    /\ cur = 2
    /\ pending = {NormalizeName(call.arg.name)}
    /\ store.tournaments[1] = call.arg
    /\ NormalizeName(store.tournaments[2].name) = 0
    /\ NormalizeName(store.tournaments[3].name) = 0

====
